---- MODULE Spec2Model ----
(***************************************************************************)
(* Client-side data-consistency core of the Gmail/kanban front end:        *)
(*   - the access-token holder and cross-tab auth bus  (lib/auth)          *)
(*   - the axios client with its 401 refresh interceptor (lib/api/client)  *)
(*   - the AuthProvider: boot-time refresh, broadcast handler, logout      *)
(*   - the stale-while-revalidate facade over the IndexedDB email cache    *)
(*   - the push-notification handler of the inbox page                     *)
(* Every tab of the origin is one JavaScript context (one event loop); an  *)
(* action is one run-to-completion handler of that loop.                   *)
(***************************************************************************)
EXTENDS Integers, Sequences, FiniteSets, TLC

\* ------------------------------------------------------------- bounds ---
MaxReqs == 2        \* requests the callers of one tab make per page load
MaxInbox == 2       \* undelivered cross-tab messages held for one tab
SendsCap == 3       \* the submission counter of a request saturates here
MaxCalls == 2       \* calls of the cached facade
MaxWatchCalls == 2  \* startGmailWatch() calls pending at once
MaxEmails == 3      \* emails in the list of useEmailSelection

\* ------------------------------------------------------------ domains ---
Null == "null"
Tabs == {"A", "B"}
Users == {"u1", "u2"}
Tokens == {"t1", "t2", "tx"}
\* tokens whose payload carries a numeric exp claim ("tx" is opaque/malformed)
ExpTokens == {"t1", "t2"}

LoginPath == "/login"
InboxPath == "/inbox"
Paths == {LoginPath, InboxPath}

\* URLs as sequences of path segments, so that String.includes is computed
RefreshUrl == <<"api", "auth", "refresh">>
LogoutUrl == <<"api", "auth", "logout">>
GoogleLoginUrl == <<"api", "auth", "google", "login">>
MailboxesUrl == <<"api", "mailboxes">>
NoUrl == <<>>
CallerUrls == {MailboxesUrl, GoogleLoginUrl}

Reqs == 1..MaxReqs
BootSlot == MaxReqs + 1
LogoutSlot == MaxReqs + 2
\* one more caller request, made only where the order of the queue is studied
LateSlot == MaxReqs + 3
Slots == Reqs \cup {BootSlot, LogoutSlot}
AllSlots == Slots \cup {LateSlot}

\* cache keys: the mailbox list, one email-list page per mailbox and page
\* token (Null = first page), one detail per email id
Mailboxes == {"INBOX"}
PageTokens == {Null, "p2"}
EmailIds == {"e1", "e2"}
MailboxesKey ==
    [kind |-> "mailboxes", mailboxId |-> Null, pageToken |-> Null, emailId |-> Null]
EmailListKey(m, p) ==
    [kind |-> "list", mailboxId |-> m, pageToken |-> p, emailId |-> Null]
EmailKey(id) ==
    [kind |-> "detail", mailboxId |-> Null, pageToken |-> Null, emailId |-> id]
EmailListKeys == {EmailListKey(m, p) : m \in Mailboxes, p \in PageTokens}
EmailKeys == {EmailKey(id) : id \in EmailIds}
Keys == {MailboxesKey} \cup EmailListKeys \cup EmailKeys
CallIds == 1..MaxCalls
\* the mailbox data on the server before and after a change (new mail)
Versions == {"old", "new"}
\* a cache entry / a response body: data of some version of the server's data
Absent == [present |-> FALSE, data |-> Null]
Entry(v) == [present |-> TRUE, data |-> v]
EmptyStore == [k \in Keys |-> Absent]

\* HTTP outcomes of a request that does not succeed; 0 = no response at all
ErrorStatuses == {401, 500, 0}

VARIABLES
    loaded,             \* [tab] the page (JS context, AuthProvider) is alive
    accessTokenMemory,  \* [tab] lib/auth: in-memory bearer token
    accessExpiryTimer,  \* [tab] lib/auth: id of the last scheduled watcher
    timers,             \* [tab] browser: pending setTimeout watchers
    authChannel,        \* [tab] lib/auth: BroadcastChannel is open
    isRefreshing,       \* [tab] client.ts: in-flight refresh flag
    pendingRequests,    \* [tab] client.ts: queued continuations
    req,                \* [tab][slot] requests made through apiClient
    user,               \* [tab] AuthProvider: React user state
    bootstrapped,       \* [tab] AuthProvider: bootstrapped state
    path,               \* [tab] window.location.pathname
    nav,                \* [tab] navigation started by location.assign
    inbox,              \* [tab] auth-sync messages not yet delivered
    lsEvent,            \* [tab] a 'storage' event for key 'user' is pending
    logoutPc,           \* [tab] position of AuthProvider.logout
    lsUser,             \* localStorage['user'] of the origin
    session,            \* server: the refresh cookie of the browser is valid
    bcSupported,        \* browser: BroadcastChannel exists
    store,              \* [key] IndexedDB email cache of the origin
    call,               \* [call] calls of the cached Gmail API facade
    server,             \* server: version of the mailbox data
    push,               \* [tab] InboxPage: position of handleGmailNotification
    mut,                \* the mutation (send, reply, forward, modify) in progress
    watch,              \* [tab] InboxPage: the 'start watch' effect and its calls
    selection           \* useEmailSelection: its props, state and effect

tabVars == <<loaded, accessTokenMemory, accessExpiryTimer, timers, authChannel,
             isRefreshing, pendingRequests, req, user, bootstrapped, path, nav,
             inbox, lsEvent, logoutPc>>
authVars == <<tabVars, lsUser, session, bcSupported>>
\* the on-device store, the facade calls, the server's data, the push handler,
\* the mutation in progress
cacheVars == <<store, call, server, push, mut>>
\* the inbox page: the start-watch effect, the email selection hook
pageVars == <<watch, selection>>
vars == <<authVars, cacheVars, pageVars>>

\* ------------------------------------------------------------ helpers ---
Range(s) == {s[i] : i \in 1..Len(s)}

\* One request made through apiClient (an axios config plus the promise of
\* its caller):
\*   st     idle | flight | queued | refreshing | ok | err | done (result used)
\*   hdr    Authorization header of the last submission      (Null = none)
\*   hdr0   Authorization header of the first submission
\*   rhdr   Authorization header of the refresh call this request's handler
\*          has issued and awaits (st = "refreshing")
\*   retry  config._retry
\*   sends  number of submissions so far (saturating at SendsCap)
\*   ans    the submission the caller's result answers
\*   err    status of the error the caller's promise was rejected with
\*   errOf  whose error that is: of its "own" request or of the "refresh" call
\*   data   access token in the body of a successful login response
\*   rtok   token handed to the continuation that resubmitted the request
\*   ord    position of that resubmission among those of its refresh cycle
\* Once the caller's promise has settled only the result is kept
\* (with the config of the submission it answers): hdr0 and rhdr are dropped.
Settled(rq) == [rq EXCEPT !.hdr0 = Null, !.rhdr = Null, !.ord = 0]

IdleReq == [st |-> "idle", url |-> NoUrl, hdr |-> Null, hdr0 |-> Null, rhdr |-> Null,
            retry |-> FALSE, sends |-> 0, ans |-> 0, err |-> -1, errOf |-> Null,
            data |-> Null, rtok |-> Null, ord |-> 0]

\* One call of the cached facade:
\*   tab     the tab whose code made the call
\*   op      none | mailboxes | list | detail
\*   key     the cache key the call reads and writes
\*   pc      idle | reading | fetching | writing | returned | threw
\*   cached  what the cache read gave the call
\*   result  the value the caller's promise resolved with
\*   from    where the result came from: cache | live
\*   bg      the fire-and-forget revalidation: none | fetching | writing | done | failed
\*   bgval   body of its response
IdleCall == [tab |-> Null, op |-> "none", key |-> MailboxesKey, pc |-> "idle", cached |-> Absent,
             result |-> Absent, from |-> "none", bg |-> "none", bgval |-> Absent]

\* handleGmailNotification: idle | invalidating | signalled, and which of the
\* two invalidations have completed
IdlePush == [pc |-> "idle", lists |-> FALSE, mailboxes |-> FALSE]

\* The 'start watch' effect of the InboxPage of a tab (InboxPage 110-123):
\*   mounted  an InboxPage is mounted
\*   ran      its effect has run since it was mounted
\*   dep      the user the effect last ran with (its dependency array)
\*   started  sessionStorage['gmailWatchStarted'] of the tab is set
\*   pending  startGmailWatch() calls whose promise has not settled
IdleWatch == [mounted |-> FALSE, ran |-> FALSE, dep |-> Null, started |-> FALSE,
              pending |-> 0]

\* useEmailSelection (hooks/email/useEmailSelection.ts) of the mounted list
\* view: its props emails (the ids, in list order) and mailboxId, its state
\* selectedEmailId, whether its effects have run since the mount, and the
\* dependencies React keeps from their last run
IdleSelection ==
    [emails |-> <<>>, mailboxId |-> "INBOX", selectedEmailId |-> Null, ran |-> FALSE,
     depMailbox |-> "INBOX", depEmails |-> <<>>, depSelected |-> Null]

\* One call of a mutation of the facade:
\*   kind         none | send | reply | forward | modify
\*   emailId      the target email (Null for send)
\*   delete       data.delete of a modify
\*   pc           idle | live | invalidating | returned | threw
\*   todo         the invalidations the call still has to await, in order
\*   invalidated  the keys the call has invalidated so far
IdleMutation == [kind |-> "none", emailId |-> Null, delete |-> FALSE, pc |-> "idle",
                 todo |-> <<>>, invalidated |-> {}]

\* String.prototype.includes on segment sequences
includes(url, pat) ==
    \E i \in 1..(Len(url) - Len(pat) + 1) : SubSeq(url, i, i + Len(pat) - 1) = pat

isAuthEndpoint(url) ==
    \/ includes(url, <<"api", "auth", "refresh">>)
    \/ includes(url, <<"api", "auth", "logout">>)
    \/ includes(url, <<"api", "auth", "google">>)

\* (mutant) the refresh branch without the _retry test
ShouldRefreshIgnoringRetry(status, retry, url) ==
    status = 401 /\ ~isAuthEndpoint(url)

\* (mutant) the refresh branch without the status test
ShouldRefreshOnAnyError(status, retry, url) ==
    ~retry /\ ~isAuthEndpoint(url)

\* the condition of the response interceptor's refresh branch
ShouldRefresh(status, retry, url) ==
    status = 401 /\ ~retry /\ ~isAuthEndpoint(url)

\* request interceptor: Authorization is overwritten only when a token is held
AttachAuth(hdr, mem) == IF mem # Null THEN mem ELSE hdr

decodeJwtExp(token) == IF token \in ExpTokens THEN token ELSE Null

\* getStoredUser: JSON.parse of localStorage['user'], null when absent/unparsable
getStoredUser == IF lsUser \in Users THEN lsUser ELSE Null

LogoutMsg(t) == [type |-> "logout", user |-> Null, accessToken |-> Null, from |-> t]
LoginMsg(t, u, tok) == [type |-> "login", user |-> u, accessToken |-> tok, from |-> t]

\* a tab receives auth-sync messages while its listener is registered
Listening(u) == loaded[u] /\ authChannel[u]

\* (mutant) postMessage that also reaches the sending context
BroadcastToAll(t, m) ==
    [u \in Tabs |-> IF authChannel[t] /\ Listening(u)
                    THEN Append(inbox[u], m) ELSE inbox[u]]

\* broadcastAuthChange: nothing without a channel; BroadcastChannel delivers
\* to every other context of the origin, in send order
Broadcast(t, m) ==
    [u \in Tabs |-> IF authChannel[t] /\ u # t /\ Listening(u)
                    THEN Append(inbox[u], m) ELSE inbox[u]]

CanBroadcast(t) == \A u \in Tabs \ {t} : Len(inbox[u]) < MaxInbox

\* a write of localStorage['user'] by tab t: other documents of the origin
\* get a 'storage' event when the value changed
StorageEvents(t, v) ==
    [u \in Tabs |-> IF u # t /\ loaded[u] /\ v # lsUser THEN TRUE ELSE lsEvent[u]]

\* scheduleAccessExpiryWatcher: clearTimer(accessExpiryTimer), then a new
\* timeout only when the token decodes to an exp claim. A timer is named by
\* the token it was scheduled from.
WatcherId(old, tok) == IF decodeJwtExp(tok) = Null THEN old ELSE tok
\* (mutant) scheduleAccessExpiryWatcher without clearTimer
WatcherTimersKeepOld(pending, old, tok) ==
    IF decodeJwtExp(tok) = Null THEN pending ELSE pending \cup {tok}

WatcherTimers(pending, old, tok) ==
    IF decodeJwtExp(tok) = Null THEN pending \ {old}
    ELSE (pending \ {old}) \cup {tok}

\* (mutant) one token holder for all open tabs
setAccessTokenEveryTab(t, tok) ==
    /\ accessTokenMemory' = [u \in Tabs |-> IF loaded[u] THEN tok
                                            ELSE accessTokenMemory[u]]
    /\ accessExpiryTimer' = [accessExpiryTimer EXCEPT ![t] = WatcherId(@, tok)]
    /\ timers' = [timers EXCEPT ![t] = WatcherTimers(@, accessExpiryTimer[t], tok)]

setAccessToken(t, tok) ==
    /\ accessTokenMemory' = [accessTokenMemory EXCEPT ![t] = tok]
    /\ accessExpiryTimer' = [accessExpiryTimer EXCEPT ![t] = WatcherId(@, tok)]
    /\ timers' = [timers EXCEPT ![t] = WatcherTimers(@, accessExpiryTimer[t], tok)]

\* (mutant) the stored user survives
clearLocalAuthKeepsUser(t) ==
    /\ accessTokenMemory' = [accessTokenMemory EXCEPT ![t] = Null]
    /\ UNCHANGED <<lsUser, lsEvent>>
    /\ timers' = [timers EXCEPT ![t] = @ \ {accessExpiryTimer[t]}]
    /\ accessExpiryTimer' = [accessExpiryTimer EXCEPT ![t] = Null]

clearLocalAuth(t) ==
    /\ accessTokenMemory' = [accessTokenMemory EXCEPT ![t] = Null]
    /\ lsUser' = Null
    /\ lsEvent' = StorageEvents(t, Null)
    /\ timers' = [timers EXCEPT ![t] = @ \ {accessExpiryTimer[t]}]
    /\ accessExpiryTimer' = [accessExpiryTimer EXCEPT ![t] = Null]

\* (mutant) clearAllAuth that tells no other tab
clearAllAuthNoBroadcast(t) ==
    /\ clearLocalAuth(t)
    /\ UNCHANGED inbox

clearAllAuth(t) ==
    /\ clearLocalAuth(t)
    /\ inbox' = Broadcast(t, LogoutMsg(t))

Inc(n) == IF n < SendsCap THEN n + 1 ELSE SendsCap

\* The server never issues the same token twice: a token it issues differs
\* from every token still held, on the wire or in a message anywhere.
TokensInUse ==
    UNION {{accessTokenMemory[t]}
           \cup UNION {{req[t][s].hdr, req[t][s].hdr0, req[t][s].rhdr,
                        req[t][s].data, req[t][s].rtok} : s \in AllSlots}
           \cup {inbox[t][i].accessToken : i \in 1..Len(inbox[t])} : t \in Tabs}
Fresh(tok) == tok \notin TokensInUse

\* the tokens in the order in which the server mints them when they are free
TokenOrder == <<"t1", "t2", "tx">>
NextToken ==
    {TokenOrder[i] : i \in {j \in 1..Len(TokenOrder) :
        /\ Fresh(TokenOrder[j])
        /\ \A k \in 1..(j - 1) : ~Fresh(TokenOrder[k])}}

\* ------------------------------------------------------- email cache ---
\* lib/db/emailCache, by its contract: every operation is atomic at its keys;
\* a read that fails gives a miss, a write that fails changes nothing and
\* does not fail its caller.
getCached(k, ok) == IF ok THEN store[k] ELSE Absent
cachePut(k, e, ok) == IF ok THEN [store EXCEPT ![k] = e] ELSE store
invalidateMailboxes == [store EXCEPT ![MailboxesKey] = Absent]
invalidateAllEmailListsForMailbox ==
    [k \in Keys |-> IF k \in EmailListKeys THEN Absent ELSE store[k]]
invalidateEmail(id) == [store EXCEPT ![EmailKey(id)] = Absent]
clearAllEmailCache(ok) == IF ok THEN EmptyStore ELSE store

\* ---------------------------------------------------------------- Init ---
Init ==
    /\ loaded = [t \in Tabs |-> FALSE]
    /\ accessTokenMemory = [t \in Tabs |-> Null]
    /\ accessExpiryTimer = [t \in Tabs |-> Null]
    /\ timers = [t \in Tabs |-> {}]
    /\ authChannel = [t \in Tabs |-> FALSE]
    /\ isRefreshing = [t \in Tabs |-> FALSE]
    /\ pendingRequests = [t \in Tabs |-> <<>>]
    /\ req = [t \in Tabs |-> [s \in AllSlots |-> IdleReq]]
    /\ user = [t \in Tabs |-> Null]
    /\ bootstrapped = [t \in Tabs |-> FALSE]
    /\ path = [t \in Tabs |-> InboxPath]
    /\ nav = [t \in Tabs |-> "none"]
    /\ inbox = [t \in Tabs |-> <<>>]
    /\ lsEvent = [t \in Tabs |-> FALSE]
    /\ logoutPc = [t \in Tabs |-> "idle"]
    /\ lsUser \in {Null, "u1"}
    /\ session \in BOOLEAN
    /\ bcSupported \in BOOLEAN
    /\ store \in [Keys -> {Absent, Entry("old")}]
    /\ call = [c \in CallIds |-> IdleCall]
    /\ server = "old"
    /\ push = [t \in Tabs |-> IdlePush]
    /\ mut = IdleMutation
    /\ watch = [t \in Tabs |-> IdleWatch]
    /\ selection = IdleSelection

\* ------------------------------------------------- page load and mount ---
\* A (re)load of the page of tab t: the module state of lib/auth and
\* client.ts starts afresh, a navigation started by location.assign commits,
\* and AuthProvider mounts: useState(getStoredUser), initAuthWatchers,
\* attemptRefresh, listeners. The components and promises of the old page are
\* gone; sessionStorage stays.
Load(t) ==
    /\ loaded' = [loaded EXCEPT ![t] = TRUE]
    /\ accessTokenMemory' = [accessTokenMemory EXCEPT ![t] = Null]
    /\ accessExpiryTimer' = [accessExpiryTimer EXCEPT ![t] = Null]
    /\ timers' = [timers EXCEPT ![t] = {}]
    /\ authChannel' = [authChannel EXCEPT ![t] = bcSupported]
    /\ isRefreshing' = [isRefreshing EXCEPT ![t] = FALSE]
    /\ pendingRequests' = [pendingRequests EXCEPT ![t] = <<>>]
    /\ user' = [user EXCEPT ![t] = getStoredUser]
    /\ path' = [path EXCEPT ![t] = IF nav[t] = "toLogin" THEN LoginPath ELSE @]
    /\ nav' = [nav EXCEPT ![t] = "none"]
    /\ inbox' = [inbox EXCEPT ![t] = <<>>]
    /\ lsEvent' = [lsEvent EXCEPT ![t] = FALSE]
    /\ logoutPc' = [logoutPc EXCEPT ![t] = "idle"]
    /\ IF getStoredUser = Null
       THEN /\ bootstrapped' = [bootstrapped EXCEPT ![t] = TRUE]
            /\ req' = [req EXCEPT ![t] = [s \in AllSlots |-> IdleReq]]
       ELSE /\ bootstrapped' = [bootstrapped EXCEPT ![t] = FALSE]
            /\ req' = [req EXCEPT ![t] = [s \in AllSlots |->
                        IF s = BootSlot
                        THEN [IdleReq EXCEPT !.st = "flight", !.url = RefreshUrl,
                                             !.hdr = AttachAuth(Null, Null),
                                             !.hdr0 = AttachAuth(Null, Null),
                                             !.sends = 1]
                        ELSE IdleReq]]
    /\ watch' = [watch EXCEPT ![t] = [IdleWatch EXCEPT !.started = watch[t].started]]
    /\ UNCHANGED <<lsUser, session, bcSupported, cacheVars, selection>>

\* client-side route change (history.pushState): pathname changes, no reload
Navigate(t, p) ==
    /\ loaded[t] /\ p # path[t]
    /\ path' = [path EXCEPT ![t] = p]
    /\ UNCHANGED <<loaded, accessTokenMemory, accessExpiryTimer, timers, authChannel,
                   isRefreshing, pendingRequests, req, user, bootstrapped, nav,
                   inbox, lsEvent, logoutPc, lsUser, session, bcSupported, cacheVars, pageVars>>

\* ------------------------------------------------------ apiClient calls ---
\* a caller submits a request; the request interceptor attaches the token
Send(t, r, url) ==
    /\ loaded[t] /\ req[t][r].st = "idle"
    /\ \A q \in Reqs : q < r => req[t][q].st # "idle"
    /\ req' = [req EXCEPT ![t][r] =
                 [IdleReq EXCEPT !.st = "flight", !.url = url, !.sends = 1,
                                 !.hdr = AttachAuth(Null, accessTokenMemory[t]),
                                 !.hdr0 = AttachAuth(Null, accessTokenMemory[t])]]
    /\ UNCHANGED <<loaded, accessTokenMemory, accessExpiryTimer, timers, authChannel,
                   isRefreshing, pendingRequests, user, bootstrapped, path, nav,
                   inbox, lsEvent, logoutPc, lsUser, session, bcSupported, cacheVars, pageVars>>

\* (mutant) the refresh branch without the isRefreshing test: every 401
\* starts a refresh call of its own
RefreshBranchAlways(t, s) ==
    /\ req' = [req EXCEPT ![t][s] =
                 [@ EXCEPT !.retry = TRUE, !.st = "refreshing",
                           !.rhdr = AttachAuth(Null, accessTokenMemory[t])]]
    /\ isRefreshing' = [isRefreshing EXCEPT ![t] = TRUE]
    /\ UNCHANGED <<loaded, accessTokenMemory, accessExpiryTimer, timers, authChannel,
                   pendingRequests, user, bootstrapped, path, nav, inbox, lsEvent,
                   logoutPc, lsUser, bcSupported, cacheVars, pageVars>>

\* response interceptor, refresh branch (client.ts 60-73): mark the request
\* retried; queue a continuation when a refresh is in flight, else become the
\* refresher and call performTokenRefresh
RefreshBranch(t, s) ==
    /\ req' = [req EXCEPT ![t][s] =
                 [@ EXCEPT !.retry = TRUE,
                           !.st = IF isRefreshing[t] THEN "queued" ELSE "refreshing",
                           !.rhdr = IF isRefreshing[t] THEN Null
                                    ELSE AttachAuth(Null, accessTokenMemory[t])]]
    /\ pendingRequests' = [pendingRequests EXCEPT ![t] =
                             IF isRefreshing[t] THEN Append(@, s) ELSE @]
    /\ isRefreshing' = [isRefreshing EXCEPT ![t] = TRUE]
    /\ UNCHANGED <<loaded, accessTokenMemory, accessExpiryTimer, timers, authChannel,
                   user, bootstrapped, path, nav, inbox, lsEvent, logoutPc, lsUser,
                   bcSupported, cacheVars, pageVars>>

\* the promise of a caller is rejected with the error of its own request
CallerRejected(t, s, status) ==
    /\ req' = [req EXCEPT ![t][s] =
                 Settled([@ EXCEPT !.st = "err", !.err = status, !.errOf = "own",
                                   !.ans = req[t][s].sends])]
    /\ UNCHANGED <<loaded, accessTokenMemory, accessExpiryTimer, timers, authChannel,
                   isRefreshing, pendingRequests, user, bootstrapped, path, nav,
                   inbox, lsEvent, logoutPc, lsUser, bcSupported, cacheVars, pageVars>>

\* (mutant) the catch of attemptRefresh without setBootstrapped(true)
BootCatchNotBootstrapped(t) ==
    /\ CanBroadcast(t)
    /\ clearAllAuth(t)
    /\ user' = [user EXCEPT ![t] = Null]
    /\ req' = [req EXCEPT ![t][BootSlot] = IdleReq]
    /\ UNCHANGED <<loaded, authChannel, isRefreshing, pendingRequests, path, nav,
                   logoutPc, bootstrapped, bcSupported, cacheVars, pageVars>>

\* attemptRefresh, catch (AuthContext 99-105)
BootCatch(t) ==
    /\ CanBroadcast(t)
    /\ clearAllAuth(t)
    /\ user' = [user EXCEPT ![t] = Null]
    /\ bootstrapped' = [bootstrapped EXCEPT ![t] = TRUE]
    /\ req' = [req EXCEPT ![t][BootSlot] = IdleReq]
    /\ UNCHANGED <<loaded, authChannel, isRefreshing, pendingRequests, path, nav,
                   logoutPc, bcSupported, cacheVars, pageVars>>

\* attemptRefresh, after rotateTokens resolved (AuthContext 96-98)
BootThen(t, tok) ==
    /\ setAccessToken(t, tok)
    /\ bootstrapped' = [bootstrapped EXCEPT ![t] = TRUE]
    /\ req' = [req EXCEPT ![t][BootSlot] = IdleReq]
    /\ UNCHANGED <<loaded, authChannel, isRefreshing, pendingRequests, user, path,
                   nav, inbox, lsEvent, logoutPc, lsUser, bcSupported, cacheVars, pageVars>>

\* logout, finally (AuthContext 174-183) up to the await of clearAllEmailCache:
\* clearAllAuth, setUserState(null), setStoredUser(null), queryClient.clear()
LogoutFinally(t) ==
    /\ CanBroadcast(t)
    /\ clearAllAuth(t)
    /\ user' = [user EXCEPT ![t] = Null]
    /\ logoutPc' = [logoutPc EXCEPT ![t] = "clearing"]
    /\ req' = [req EXCEPT ![t][LogoutSlot] = IdleReq]
    /\ UNCHANGED <<loaded, authChannel, isRefreshing, pendingRequests, bootstrapped,
                   path, nav, bcSupported, cacheVars, pageVars>>

\* a request fails: no response (0) or an error status; the error runs
\* through the response interceptor and then reaches whoever awaits it
ErrorResponse(t, s, status) ==
    /\ loaded[t] /\ req[t][s].st = "flight"
    /\ (req[t][s].url = RefreshUrl /\ status = 401) => ~session
    /\ IF ShouldRefresh(status, req[t][s].retry, req[t][s].url)
       THEN RefreshBranch(t, s)
       ELSE CASE s = BootSlot -> BootCatch(t)
              [] s = LogoutSlot -> LogoutFinally(t)
              [] OTHER -> CallerRejected(t, s, status)
    /\ UNCHANGED session

\* a request succeeds
OkResponse(t, s, tok) ==
    /\ loaded[t] /\ req[t][s].st = "flight"
    /\ req[t][s].url = RefreshUrl => session
    /\ IF req[t][s].url \in {RefreshUrl, GoogleLoginUrl}
       THEN Fresh(tok) ELSE tok = "t1"
    /\ session' = IF req[t][s].url = LogoutUrl THEN FALSE
                  ELSE IF req[t][s].url = GoogleLoginUrl THEN TRUE ELSE session
    /\ CASE s = BootSlot -> BootThen(t, tok)
         [] s = LogoutSlot -> LogoutFinally(t)
         [] OTHER ->
              /\ req' = [req EXCEPT ![t][s] =
                           Settled([@ EXCEPT !.st = "ok", !.ans = req[t][s].sends,
                                             !.data = IF req[t][s].url = GoogleLoginUrl
                                                      THEN tok ELSE Null])]
              /\ UNCHANGED <<loaded, accessTokenMemory, accessExpiryTimer, timers,
                             authChannel, isRefreshing, pendingRequests, user,
                             bootstrapped, path, nav, inbox, lsEvent, logoutPc,
                             lsUser, bcSupported, cacheVars, pageVars>>

\* (mutant) the resubmission goes out with the header of the failed submission
ResubmitOldHeader(rq, tok, mem) ==
    [rq EXCEPT !.st = "flight", !.sends = Inc(@), !.rhdr = Null, !.rtok = tok]

\* a continuation resubmits its request: the header is set to the token it was
\* given (client.ts 66-68, 83-86) and the request interceptor runs again
Resubmit(rq, tok, mem) ==
    [rq EXCEPT !.st = "flight", !.hdr = AttachAuth(tok, mem), !.sends = Inc(@),
               !.rhdr = Null, !.rtok = tok]

\* (mutant) the queue is drained from its newest entry to its oldest
onRefreshedNewestFirst(t) ==
    [i \in 1..Len(pendingRequests[t]) |->
        pendingRequests[t][Len(pendingRequests[t]) + 1 - i]]

\* onRefreshed (client.ts 18-21): forEach calls the continuations in array
\* order, that is, in the order they were pushed
onRefreshed(t) == pendingRequests[t]

\* (mutant) a successful refresh cycle resubmits the refresher's request only
RefreshOrderRefresherOnly(t, s) == <<s>>

\* the resubmissions of a successful refresh cycle, in order: the queued
\* continuations (client.ts 81), then the refresher's own request (83-86)
RefreshOrder(t, s) == onRefreshed(t) \o <<s>>

\* (mutant) a successful refresh cycle without the finally: the flag stays set
RefreshOkKeepsFlag(t, s, tok) ==
    /\ loaded[t] /\ req[t][s].st = "refreshing"
    /\ session /\ Fresh(tok)
    /\ setAccessToken(t, tok)
    /\ req' = [req EXCEPT ![t] =
                 [q \in AllSlots |->
                    IF q \in Range(RefreshOrder(t, s))
                    THEN [Resubmit(req[t][q], tok, tok) EXCEPT
                            !.ord = CHOOSE i \in 1..Len(RefreshOrder(t, s)) :
                                       RefreshOrder(t, s)[i] = q]
                    ELSE req[t][q]]]
    /\ pendingRequests' = [pendingRequests EXCEPT ![t] = <<>>]
    /\ UNCHANGED <<loaded, authChannel, isRefreshing, user, bootstrapped, path, nav,
                   inbox, lsEvent, logoutPc, lsUser, session, bcSupported, cacheVars, pageVars>>

\* the refresh call of refresher s succeeds (client.ts 76-86, 93-95):
\* setAccessToken, onRefreshed (every queued continuation, then the queue is
\* emptied), the refresher's own resubmission, finally isRefreshing = false
RefreshOk(t, s, tok) ==
    /\ loaded[t] /\ req[t][s].st = "refreshing"
    /\ session /\ Fresh(tok)
    /\ setAccessToken(t, tok)
    /\ req' = [req EXCEPT ![t] =
                 [q \in AllSlots |->
                    IF q \in Range(RefreshOrder(t, s))
                    THEN [Resubmit(req[t][q], tok, tok) EXCEPT
                            !.ord = CHOOSE i \in 1..Len(RefreshOrder(t, s)) :
                                       RefreshOrder(t, s)[i] = q]
                    ELSE req[t][q]]]
    /\ pendingRequests' = [pendingRequests EXCEPT ![t] = <<>>]
    /\ isRefreshing' = [isRefreshing EXCEPT ![t] = FALSE]
    /\ UNCHANGED <<loaded, authChannel, user, bootstrapped, path, nav, inbox,
                   lsEvent, logoutPc, lsUser, session, bcSupported, cacheVars, pageVars>>

\* (mutant) the catch also rejects every queued request and clears the queue
RefreshFailRejectsQueued(t, s, status) ==
    /\ loaded[t] /\ req[t][s].st = "refreshing"
    /\ status = 401 => ~session
    /\ CanBroadcast(t)
    /\ clearAllAuth(t)
    /\ nav' = [nav EXCEPT ![t] = IF path[t] # LoginPath THEN "toLogin" ELSE @]
    /\ req' = [req EXCEPT ![t] =
                 [q \in AllSlots |->
                    IF q = s \/ q \in Range(pendingRequests[t])
                    THEN Settled([req[t][q] EXCEPT !.st = "err", !.err = status,
                                                  !.errOf = "refresh",
                                                  !.ans = req[t][q].sends])
                    ELSE req[t][q]]]
    /\ isRefreshing' = [isRefreshing EXCEPT ![t] = FALSE]
    /\ pendingRequests' = [pendingRequests EXCEPT ![t] = <<>>]
    /\ UNCHANGED <<loaded, authChannel, user, bootstrapped, path, logoutPc, session,
                   bcSupported, cacheVars, pageVars>>

\* the refresh call of refresher s fails (client.ts 87-95). Its error first
\* runs through the response interceptor as the error of a request to
\* RefreshUrl; then catch: clearAllAuth, redirect unless on /login, reject;
\* finally isRefreshing = false. The queue is not touched.
RefreshFail(t, s, status) ==
    /\ loaded[t] /\ req[t][s].st = "refreshing"
    /\ status = 401 => ~session
    /\ IF ShouldRefresh(status, FALSE, RefreshUrl)
       THEN \* the refresh call would queue behind itself and never settle
            /\ req' = [req EXCEPT ![t][s] = [@ EXCEPT !.st = "stalled"]]
            /\ pendingRequests' = [pendingRequests EXCEPT ![t] = Append(@, s)]
            /\ UNCHANGED <<accessTokenMemory, accessExpiryTimer, timers, isRefreshing,
                           nav, inbox, lsEvent, lsUser>>
       ELSE /\ CanBroadcast(t)
            /\ clearAllAuth(t)
            /\ nav' = [nav EXCEPT ![t] = IF path[t] # LoginPath THEN "toLogin" ELSE @]
            /\ req' = [req EXCEPT ![t][s] =
                         Settled([@ EXCEPT !.st = "err", !.err = status,
                                           !.errOf = "refresh",
                                           !.ans = req[t][s].sends])]
            /\ isRefreshing' = [isRefreshing EXCEPT ![t] = FALSE]
            /\ UNCHANGED pendingRequests
    /\ UNCHANGED <<loaded, authChannel, user, bootstrapped, path, logoutPc, session,
                   bcSupported, cacheVars, pageVars>>

\* --------------------------------------------------------- AuthProvider ---
\* handleAuthBroadcast (AuthContext 125-137) on the oldest undelivered message
Recv(t) ==
    /\ loaded[t] /\ inbox[t] # <<>>
    /\ LET m == Head(inbox[t]) IN
         IF m.type = "logout"
         THEN /\ clearLocalAuth(t)
              /\ user' = [user EXCEPT ![t] = Null]
         ELSE /\ user' = [user EXCEPT ![t] = m.user]
              /\ setAccessToken(t, m.accessToken)
              /\ UNCHANGED <<lsUser, lsEvent>>
    /\ inbox' = [inbox EXCEPT ![t] = Tail(@)]
    /\ UNCHANGED <<loaded, authChannel, isRefreshing, pendingRequests, req,
                   bootstrapped, path, nav, logoutPc, session, bcSupported, cacheVars, pageVars>>

\* handleStorage (AuthContext 114-119) for a change of key 'user'
StorageEvent(t) ==
    /\ loaded[t] /\ lsEvent[t]
    /\ user' = [user EXCEPT ![t] = getStoredUser]
    /\ lsEvent' = [lsEvent EXCEPT ![t] = FALSE]
    /\ UNCHANGED <<loaded, accessTokenMemory, accessExpiryTimer, timers, authChannel,
                   isRefreshing, pendingRequests, req, bootstrapped, path, nav, inbox,
                   logoutPc, lsUser, session, bcSupported, cacheVars, pageVars>>

\* the keys a 'storage' event can carry: 'user', another key of the origin,
\* or none (localStorage.clear())
EventKeys == {"user", "theme", Null}

\* (mutant) handleStorage that syncs the user on every event that has a key
handleStorageAnyKey(t, key) ==
    /\ loaded[t]
    /\ key = "user" => lsEvent[t]
    /\ user' = [user EXCEPT ![t] = IF key = Null THEN @ ELSE getStoredUser]
    /\ lsEvent' = [lsEvent EXCEPT ![t] = IF key = "user" THEN FALSE ELSE @]
    /\ UNCHANGED <<loaded, accessTokenMemory, accessExpiryTimer, timers, authChannel,
                   isRefreshing, pendingRequests, req, bootstrapped, path, nav, inbox,
                   logoutPc, lsUser, session, bcSupported, cacheVars, pageVars>>

\* handleStorage (AuthContext 114-119) on a 'storage' event with this key:
\* return when there is no key, syncUserFromStorage when the key is 'user'
handleStorage(t, key) ==
    IF key = "user"
    THEN StorageEvent(t)
    ELSE loaded[t] /\ UNCHANGED vars

\* text under localStorage['user'] that JSON.parse rejects
Unparsable == "{"

\* a script of the origin other than this build of the app (an older build, an
\* extension, the console) overwrites localStorage['user'] with such text
OtherWriter ==
    /\ lsUser # Unparsable
    /\ lsUser' = Unparsable
    /\ lsEvent' = [u \in Tabs |-> loaded[u] \/ lsEvent[u]]
    /\ UNCHANGED <<loaded, accessTokenMemory, accessExpiryTimer, timers, authChannel,
                   isRefreshing, pendingRequests, req, user, bootstrapped, path, nav,
                   inbox, logoutPc, session, bcSupported, cacheVars, pageVars>>

\* setUser of the context value (AuthContext 154-157)
SetUser(t, u) ==
    /\ loaded[t] /\ u # user[t]
    /\ user' = [user EXCEPT ![t] = u]
    /\ lsUser' = u
    /\ lsEvent' = StorageEvents(t, u)
    /\ UNCHANGED <<loaded, accessTokenMemory, accessExpiryTimer, timers, authChannel,
                   isRefreshing, pendingRequests, req, bootstrapped, path, nav, inbox,
                   logoutPc, session, bcSupported, cacheVars, pageVars>>

\* persistLoginInfo(user, accessToken), called with the body of a successful
\* login response
PersistLogin(t, r, u) ==
    /\ loaded[t] /\ req[t][r].st = "ok" /\ req[t][r].url = GoogleLoginUrl
    /\ CanBroadcast(t)
    /\ lsUser' = u
    /\ lsEvent' = StorageEvents(t, u)
    /\ setAccessToken(t, req[t][r].data)
    /\ inbox' = Broadcast(t, LoginMsg(t, u, req[t][r].data))
    /\ req' = [req EXCEPT ![t][r] = [@ EXCEPT !.st = "done"]]
    /\ UNCHANGED <<loaded, authChannel, isRefreshing, pendingRequests, user,
                   bootstrapped, path, nav, logoutPc, session, bcSupported, cacheVars, pageVars>>

\* logout (AuthContext 167-171): with a user, logoutUser is awaited first
Logout(t) ==
    /\ loaded[t] /\ logoutPc[t] = "idle"
    /\ IF user[t] # Null
       THEN /\ req' = [req EXCEPT ![t][LogoutSlot] =
                         [IdleReq EXCEPT !.st = "flight", !.url = LogoutUrl,
                                         !.sends = 1,
                                         !.hdr = AttachAuth(Null, accessTokenMemory[t]),
                                         !.hdr0 = AttachAuth(Null, accessTokenMemory[t])]]
            /\ logoutPc' = [logoutPc EXCEPT ![t] = "api"]
            /\ UNCHANGED <<loaded, accessTokenMemory, accessExpiryTimer, timers,
                           authChannel, isRefreshing, pendingRequests, user,
                           bootstrapped, path, nav, inbox, lsEvent, lsUser,
                           bcSupported, cacheVars, pageVars>>
       ELSE LogoutFinally(t)
    /\ UNCHANGED session

\* logout: clearAllEmailCache settled (its error is swallowed)
LogoutCacheCleared(t) ==
    /\ loaded[t] /\ logoutPc[t] = "clearing"
    /\ logoutPc' = [logoutPc EXCEPT ![t] = "idle"]
    /\ \E ok \in BOOLEAN : store' = clearAllEmailCache(ok)
    /\ UNCHANGED <<loaded, accessTokenMemory, accessExpiryTimer, timers, authChannel,
                   isRefreshing, pendingRequests, req, user, bootstrapped, path, nav,
                   inbox, lsEvent, lsUser, session, bcSupported, call, server, push,
                   mut, pageVars>>

\* the expiry watcher fires: its callback is empty (lib/auth 86-89)
TimerFires(t, id) ==
    /\ loaded[t] /\ id \in timers[t]
    /\ timers' = [timers EXCEPT ![t] = @ \ {id}]
    /\ UNCHANGED <<loaded, accessTokenMemory, accessExpiryTimer, authChannel,
                   isRefreshing, pendingRequests, req, user, bootstrapped, path, nav,
                   inbox, lsEvent, logoutPc, lsUser, session, bcSupported, cacheVars, pageVars>>

\* setAccessToken(token) called with any token or null (lib/auth 93-96)
SetToken(t, tok) ==
    /\ loaded[t]
    /\ setAccessToken(t, tok)
    /\ UNCHANGED <<loaded, authChannel, isRefreshing, pendingRequests, req, user,
                   bootstrapped, path, nav, inbox, lsEvent, logoutPc, lsUser, session,
                   bcSupported, cacheVars, pageVars>>

\* clearLocalAuth() called (lib/auth 131-136)
ClearLocal(t) ==
    /\ loaded[t]
    /\ clearLocalAuth(t)
    /\ UNCHANGED <<loaded, authChannel, isRefreshing, pendingRequests, req, user,
                   bootstrapped, path, nav, inbox, logoutPc, session, bcSupported,
                   cacheVars, pageVars>>

\* server: the refresh credential expires or is revoked
SessionExpires ==
    /\ session
    /\ session' = FALSE
    /\ UNCHANGED <<tabVars, lsUser, bcSupported, cacheVars, pageVars>>

\* ------------------------------------------- stale-while-revalidate API ---
\* a caller (a React Query queryFn) in tab t calls getMailboxesCached(),
\* getMailboxEmailsInfiniteCached(m, p) or getEmailDetailCached(id): the call
\* awaits the cache read
CallFacade(t, c, k) ==
    /\ call[c].pc = "idle"
    /\ \A d \in CallIds : d < c => call[d].pc # "idle"
    /\ call' = [call EXCEPT ![c] =
                  [IdleCall EXCEPT !.tab = t, !.op = k.kind, !.key = k,
                                   !.pc = "reading"]]
    /\ UNCHANGED <<authVars, pageVars, mut, store, server, push>>

\* (mutant) the hit path awaits the live fetch like the miss path
HitAwaitsFetch(cl, cached) == [cl EXCEPT !.cached = cached, !.pc = "fetching"]

\* the hit path: the background fetch is started and the cached value returned
Hit(cl, cached) ==
    [cl EXCEPT !.cached = cached, !.bg = "fetching", !.pc = "returned",
               !.result = cached, !.from = "cache"]

\* (mutant) the miss path returns what the cache read gave
MissServesAbsent(cl, cached) ==
    [cl EXCEPT !.cached = cached, !.pc = "returned", !.result = cached,
               !.from = "cache"]

\* the miss path: the live fetch is awaited
Miss(cl, cached) == [cl EXCEPT !.cached = cached, !.pc = "fetching"]

\* getMailboxesCached after the cache read
getMailboxesCached(c, ok) ==
    /\ call[c].pc = "reading" /\ call[c].op = "mailboxes"
    /\ LET cached == getCached(call[c].key, ok) IN
         call' = [call EXCEPT ![c] = IF cached.present THEN Hit(@, cached)
                                     ELSE Miss(@, cached)]
    /\ UNCHANGED <<authVars, pageVars, mut, store, server, push>>

\* (mutant) every page with a cached copy takes the hit path
getMailboxEmailsInfiniteCachedAnyPage(c, ok) ==
    /\ call[c].pc = "reading" /\ call[c].op = "list"
    /\ LET cached == getCached(call[c].key, ok)
       IN call' = [call EXCEPT ![c] = IF cached.present
                                       THEN Hit(@, cached)
                                       ELSE Miss(@, cached)]
    /\ UNCHANGED <<authVars, pageVars, mut, store, server, push>>

\* getMailboxEmailsInfiniteCached after the cache read
getMailboxEmailsInfiniteCached(c, ok) ==
    /\ call[c].pc = "reading" /\ call[c].op = "list"
    /\ LET cached == getCached(call[c].key, ok)
           isFirstPage == call[c].key.pageToken = Null
       IN call' = [call EXCEPT ![c] = IF isFirstPage /\ cached.present
                                       THEN Hit(@, cached)
                                       ELSE Miss(@, cached)]
    /\ UNCHANGED <<authVars, pageVars, mut, store, server, push>>

\* getEmailDetailCached after the cache read
getEmailDetailCached(c, ok) ==
    /\ call[c].pc = "reading" /\ call[c].op = "detail"
    /\ LET cached == getCached(call[c].key, ok) IN
         call' = [call EXCEPT ![c] = IF cached.present THEN Hit(@, cached)
                                     ELSE Miss(@, cached)]
    /\ UNCHANGED <<authVars, pageVars, mut, store, server, push>>

\* the awaited live fetch resolves: the response is written to the cache next
LiveOk(c) ==
    /\ call[c].pc = "fetching"
    /\ call' = [call EXCEPT ![c] = [@ EXCEPT !.pc = "writing", !.result = Entry(server)]]
    /\ UNCHANGED <<authVars, pageVars, mut, store, server, push>>

\* (mutant) a failed page fetch always propagates
FallbackNever(cl) == [cl EXCEPT !.pc = "threw"]

\* the catch of getMailboxEmailsInfiniteCached: the cached page if there is one
Fallback(cl) ==
    IF cl.cached.present
    THEN [cl EXCEPT !.pc = "returned", !.result = cl.cached, !.from = "cache"]
    ELSE [cl EXCEPT !.pc = "threw"]

\* the awaited live fetch rejects: getMailboxesCached and getEmailDetailCached
\* have no catch
LiveFail(c) ==
    /\ call[c].pc = "fetching"
    /\ call' = [call EXCEPT ![c] = IF call[c].op = "list" THEN Fallback(@)
                                   ELSE [@ EXCEPT !.pc = "threw"]]
    /\ UNCHANGED <<authVars, pageVars, mut, store, server, push>>

\* the awaited cache write settles: the live response is returned
LiveCached(c, ok) ==
    /\ call[c].pc = "writing"
    /\ store' = cachePut(call[c].key, call[c].result, ok)
    /\ call' = [call EXCEPT ![c] = [@ EXCEPT !.pc = "returned", !.from = "live"]]
    /\ UNCHANGED <<authVars, pageVars, mut, server, push>>

\* the background fetch resolves: .then starts the cache write
BgOk(c) ==
    /\ call[c].bg = "fetching"
    /\ call' = [call EXCEPT ![c] = [@ EXCEPT !.bg = "writing", !.bgval = Entry(server)]]
    /\ UNCHANGED <<authVars, pageVars, mut, store, server, push>>

\* (mutant) the rejection of the background fetch reaches the caller
BgFailRethrows(c) ==
    /\ call[c].bg = "fetching"
    /\ call' = [call EXCEPT ![c] = [@ EXCEPT !.bg = "failed", !.pc = "threw"]]
    /\ UNCHANGED <<authVars, pageVars, mut, store, server, push>>

\* the background fetch rejects: .catch logs a warning
BgFail(c) ==
    /\ call[c].bg = "fetching"
    /\ call' = [call EXCEPT ![c] = [@ EXCEPT !.bg = "failed"]]
    /\ UNCHANGED <<authVars, pageVars, mut, store, server, push>>

\* the cache write of the background revalidation settles
BgCached(c, ok) ==
    /\ call[c].bg = "writing"
    /\ store' = cachePut(call[c].key, call[c].bgval, ok)
    /\ call' = [call EXCEPT ![c] = [@ EXCEPT !.bg = IF ok THEN "done" ELSE "failed"]]
    /\ UNCHANGED <<authVars, pageVars, mut, server, push>>

\* server: the mailbox data changes (new mail)
ServerChange ==
    /\ server = "old"
    /\ server' = "new"
    /\ UNCHANGED <<authVars, pageVars, mut, store, call, push>>

\* ---------------------------------------------------------- mutations ---
\* What each mutation awaits after its live call has resolved, in order:
\* "email" = invalidateEmail(emailId), "lists" =
\* invalidateAllEmailListsForMailbox(), "mailboxes" = invalidateMailboxes()
sendEmailWithCacheInvalidation == <<"lists">>
replyEmailWithCacheInvalidation == <<"email", "lists">>
forwardEmailWithCacheInvalidation == <<"lists">>

\* (mutant) modify that leaves the mailbox list alone
modifyEmailWithoutMailboxes(delete) == <<"email", "lists">>

modifyEmailWithCacheInvalidation(delete) ==
    IF delete THEN <<"email", "lists", "mailboxes">>
    ELSE <<"email", "lists", "mailboxes">>

MutationKinds == {"send", "reply", "forward", "modify"}

Invalidations(kind, delete) ==
    CASE kind = "send" -> sendEmailWithCacheInvalidation
      [] kind = "reply" -> replyEmailWithCacheInvalidation
      [] kind = "forward" -> forwardEmailWithCacheInvalidation
      [] OTHER -> modifyEmailWithCacheInvalidation(delete)

\* a mutation is called: its live call is awaited first
Mutate(kind, id, delete) ==
    /\ mut.pc \in {"idle", "returned", "threw"}
    /\ (kind = "send") = (id = Null)
    /\ delete => kind = "modify"
    /\ mut' = [IdleMutation EXCEPT !.kind = kind, !.emailId = id, !.delete = delete,
                                   !.pc = "live"]
    /\ UNCHANGED <<authVars, pageVars, store, call, server, push>>

\* (mutant) a failed live call still invalidates the email lists
MutateLiveFailInvalidates ==
    /\ mut.pc = "live"
    /\ mut' = [mut EXCEPT !.pc = "threw"]
    /\ store' = invalidateAllEmailListsForMailbox
    /\ UNCHANGED <<authVars, pageVars, call, server, push>>

\* the live call rejects: the mutation has no catch, the error is the caller's
MutateLiveFail ==
    /\ mut.pc = "live"
    /\ mut' = [mut EXCEPT !.pc = "threw"]
    /\ UNCHANGED <<authVars, pageVars, store, call, server, push>>

\* the live call resolves: the server's data has changed, the first
\* invalidation is awaited
MutateLiveOk ==
    /\ mut.pc = "live"
    /\ mut' = [mut EXCEPT !.pc = "invalidating",
                          !.todo = Invalidations(mut.kind, mut.delete)]
    /\ server' = "new"
    /\ UNCHANGED <<authVars, pageVars, store, call, push>>

\* the awaited invalidation completes; after the last one the response of the
\* live call is returned
MutateInvalidated ==
    /\ mut.pc = "invalidating"
    /\ LET step == Head(mut.todo)
           keys == CASE step = "email" -> {EmailKey(mut.emailId)}
                     [] step = "lists" -> EmailListKeys
                     [] OTHER -> {MailboxesKey}
       IN /\ store' = CASE step = "email" -> invalidateEmail(mut.emailId)
                        [] step = "lists" -> invalidateAllEmailListsForMailbox
                        [] OTHER -> invalidateMailboxes
          /\ mut' = [mut EXCEPT !.todo = Tail(@),
                                !.invalidated = @ \cup keys,
                                !.pc = IF Len(mut.todo) = 1 THEN "returned"
                                       ELSE "invalidating"]
    /\ UNCHANGED <<authVars, pageVars, call, server, push>>

\* ------------------------------------------------------- Gmail push ---
\* what a notification can carry: a history id of a change, or nothing usable
Notifications == {"history", "empty"}

\* (mutant) a notification without a history id goes straight to the refetch
\* signal
handleGmailNotificationIfHistory(t, notification) ==
    /\ push[t].pc \in {"idle", "signalled"}
    /\ push' = [push EXCEPT ![t] =
                  IF notification = "history"
                  THEN [pc |-> "invalidating", lists |-> FALSE, mailboxes |-> FALSE]
                  ELSE [pc |-> "signalled", lists |-> FALSE, mailboxes |-> FALSE]]
    /\ UNCHANGED <<authVars, pageVars, mut, store, call, server>>

\* handleGmailNotification up to the await: the notification is logged and
\* both invalidations are started
handleGmailNotification(t, notification) ==
    /\ push[t].pc \in {"idle", "signalled"}
    /\ push' = [push EXCEPT ![t] =
                  [pc |-> "invalidating", lists |-> FALSE, mailboxes |-> FALSE]]
    /\ UNCHANGED <<authVars, pageVars, mut, store, call, server>>

\* (mutant) only the email lists are invalidated
InvalidationDoneListsOnly(t, which) ==
    /\ push[t].pc = "invalidating" /\ ~push[t][which]
    /\ store' = IF which = "lists" THEN invalidateAllEmailListsForMailbox ELSE store
    /\ LET done == [push[t] EXCEPT ![which] = TRUE] IN
         push' = [push EXCEPT ![t] = IF done.lists /\ done.mailboxes
                                     THEN [done EXCEPT !.pc = "signalled"]
                                     ELSE done]
    /\ UNCHANGED <<authVars, pageVars, mut, call, server>>

\* one of the two invalidations completes; when it is the second, Promise.all
\* resolves and the continuation calls queryClient.invalidateQueries before
\* any other task runs
InvalidationDone(t, which) ==
    /\ push[t].pc = "invalidating" /\ ~push[t][which]
    /\ store' = IF which = "lists" THEN invalidateAllEmailListsForMailbox
                ELSE invalidateMailboxes
    /\ LET done == [push[t] EXCEPT ![which] = TRUE] IN
         push' = [push EXCEPT ![t] = IF done.lists /\ done.mailboxes
                                     THEN [done EXCEPT !.pc = "signalled"]
                                     ELSE done]
    /\ UNCHANGED <<authVars, pageVars, mut, call, server>>

\* ------------------------------------------------------ start watch ---
\* the InboxPage of tab t is mounted, or unmounted and mounted again (a route
\* change and back): a new instance, whose effects run at the mount. The
\* promises of the calls the old instance made stay pending.
MountInbox(t) ==
    /\ loaded[t]
    /\ watch' = [watch EXCEPT ![t] = [@ EXCEPT !.mounted = TRUE, !.ran = FALSE]]
    /\ UNCHANGED <<authVars, cacheVars, selection>>

\* useEffect(..., [user]): the effect runs after the mount and after every
\* render in which user differs from the user of its last run
WatchEffectDue(t) ==
    watch[t].mounted /\ (~watch[t].ran \/ watch[t].dep # user[t])

\* the effect (InboxPage 111-123): startGmailWatch() is called when the
\* session flag is not set and there is a user
StartWatchEffect(t) ==
    /\ loaded[t] /\ WatchEffectDue(t)
    /\ LET watchStarted == watch[t].started
           calls == ~watchStarted /\ user[t] # Null
       IN /\ calls => watch[t].pending < MaxWatchCalls
          /\ watch' = [watch EXCEPT ![t] =
                         [@ EXCEPT !.ran = TRUE, !.dep = user[t],
                                   !.pending = IF calls THEN @ + 1 ELSE @]]
    /\ UNCHANGED <<authVars, cacheVars, selection>>

\* a startGmailWatch() call resolved: .then sets the session flag
startGmailWatchThen(t) ==
    /\ loaded[t] /\ watch[t].pending > 0
    /\ watch' = [watch EXCEPT ![t] = [@ EXCEPT !.pending = @ - 1, !.started = TRUE]]
    /\ UNCHANGED <<authVars, cacheVars, selection>>

\* a startGmailWatch() call rejected: .catch logs the error
startGmailWatchCatch(t) ==
    /\ loaded[t] /\ watch[t].pending > 0
    /\ watch' = [watch EXCEPT ![t] = [@ EXCEPT !.pending = @ - 1]]
    /\ UNCHANGED <<authVars, cacheVars, selection>>

\* --------------------------------------------------- email selection ---
\* ids of the emails a list can show, the mailboxes the view can show, and
\* the lists: up to MaxEmails emails, none twice
ListedIds == {"e1", "e2", "e3"}
SelectableMailboxes == {"INBOX", "SENT"}
EmailLists ==
    {l \in UNION {[1..n -> ListedIds] : n \in 0..MaxEmails} :
        \A i, j \in 1..Len(l) : i # j => l[i] # l[j]}

\* Array.prototype.findIndex((e) => e.id === id): 0-based, -1 when none
findIndex(emails, id) ==
    IF \E i \in 1..Len(emails) : emails[i] = id
    THEN (CHOOSE i \in 1..Len(emails) :
              emails[i] = id /\ \A j \in 1..(i - 1) : emails[j] # id) - 1
    ELSE -1

Min(a, b) == IF a <= b THEN a ELSE b

\* emails[i]?.id for a 0-based index i
IdAt(emails, i) == IF i >= 0 /\ i < Len(emails) THEN emails[i + 1] ELSE Null

\* the auto-select effect (useEmailSelection 33-46) run in a render with these
\* emails and this selectedEmailId: the state it leaves, given the state
\* `current` the effects before it have asked for
autoSelect(emails, selectedEmailId, current) ==
    IF Len(emails) = 0 THEN Null
    ELSE LET currentIndex == findIndex(emails, selectedEmailId) IN
         IF currentIndex = -1
         THEN LET nextEmail == IdAt(emails, Min(0, Len(emails) - 1)) IN
              IF nextEmail # Null THEN nextEmail ELSE IdAt(emails, 0)
         ELSE current

\* the dependencies of one of the two effects changed in the last render
ResetDue == ~selection.ran \/ selection.mailboxId # selection.depMailbox
AutoSelectDue ==
    \/ ~selection.ran
    \/ selection.emails # selection.depEmails
    \/ selection.selectedEmailId # selection.depSelected

\* React runs the effects of the last render whose dependencies changed, in
\* the order of their declaration and with the values of that render: the
\* reset on a mailbox change (24-27), then the auto-select (33-46); the state
\* updates they asked for are applied together
RunEffects ==
    /\ ResetDue \/ AutoSelectDue
    /\ LET reset == IF ResetDue THEN Null ELSE selection.selectedEmailId
           next == IF AutoSelectDue
                   THEN autoSelect(selection.emails, selection.selectedEmailId, reset)
                   ELSE reset
       IN selection' = [selection EXCEPT !.ran = TRUE,
                                         !.depMailbox = selection.mailboxId,
                                         !.depEmails = selection.emails,
                                         !.depSelected = selection.selectedEmailId,
                                         !.selectedEmailId = next]
    /\ UNCHANGED <<authVars, cacheVars, watch>>

\* the parent renders the hook with another list of the same mailbox (a
\* refetch after a deletion, new mail, another page); pending effects are run
\* before React handles the next update
EmailsChange(l) ==
    /\ ~(ResetDue \/ AutoSelectDue)
    /\ l # selection.emails
    /\ selection' = [selection EXCEPT !.emails = l]
    /\ UNCHANGED <<authVars, cacheVars, watch>>

\* the user opens another mailbox: the parent renders the hook with its id
\* and its list
MailboxChange(m, l) ==
    /\ ~(ResetDue \/ AutoSelectDue)
    /\ m # selection.mailboxId
    /\ selection' = [selection EXCEPT !.mailboxId = m, !.emails = l]
    /\ UNCHANGED <<authVars, cacheVars, watch>>

\* the user clicks an email of the list
setSelectedEmailId(id) ==
    /\ ~(ResetDue \/ AutoSelectDue)
    /\ id \in Range(selection.emails) /\ id # selection.selectedEmailId
    /\ selection' = [selection EXCEPT !.selectedEmailId = id]
    /\ UNCHANGED <<authVars, cacheVars, watch>>

\* ------------------------------------------------------- specifications ---
\* SpecHttp: the transport pipeline of one tab (the other tab stays closed):
\* page loads with the boot-time refresh, concurrent caller requests, the
\* 401 interceptor and its refresh cycles. A call fails with 401 or with no
\* response (an error status other than 401 takes the same path as no
\* response; SpecBoot and SpecTabs have one).
InitHttp == Init /\ bcSupported /\ store = EmptyStore
NextHttp ==
    \/ Load("A")
    \/ \E p \in Paths : Navigate("A", p)
    \/ \E r \in Reqs : Send("A", r, MailboxesUrl)
    \/ \E s \in Slots, status \in {401, 0} : ErrorResponse("A", s, status)
    \/ \E s \in Slots, tok \in NextToken \cup {"t1"} : OkResponse("A", s, tok)
    \/ \E s \in Slots, tok \in NextToken : RefreshOk("A", s, tok)
    \/ \E s \in Slots, status \in {401, 0} : RefreshFail("A", s, status)
    \/ SessionExpires
SpecHttp == InitHttp /\ [][NextHttp]_vars

\* SpecQueue: one tab whose callers make one request more than in SpecHttp, so
\* that two continuations can wait in the queue behind a refresher. The server
\* answers the callers with 401 or 200, the refresh call with 200 or not at
\* all; nobody is logged in and the session is valid when the page opens. The
\* page can be reloaded at any time, and is after a redirect to /login.
InitQueue == InitHttp /\ session /\ lsUser = Null
NextQueue ==
    \/ Load("A")
    \/ \E r \in Reqs \cup {LateSlot} : Send("A", r, MailboxesUrl)
    \/ \E s \in AllSlots : ErrorResponse("A", s, 401)
    \/ \E s \in AllSlots, tok \in NextToken \cup {"t1"} : OkResponse("A", s, tok)
    \/ \E s \in AllSlots, tok \in NextToken : RefreshOk("A", s, tok)
    \/ \E s \in AllSlots : RefreshFail("A", s, 0)
SpecQueue == InitQueue /\ [][NextQueue]_vars

\* SpecBoot: one page load of one tab and what follows while the provider
\* stays mounted: the boot-time refresh, two caller requests and the refresh
\* cycles of the interceptor. The rotateTokens call of attemptRefresh settles
\* (with a response, an error status or a network error): weak fairness on
\* BootSettles.
BootSettles(t) ==
    \/ \E tok \in Tokens : OkResponse(t, BootSlot, tok)
    \/ \E status \in ErrorStatuses : ErrorResponse(t, BootSlot, status)
InitBoot == InitHttp
NextBoot ==
    \/ ~loaded["A"] /\ Load("A")
    \/ \E r \in {1, 2} : Send("A", r, MailboxesUrl)
    \/ \E s \in Slots, status \in ErrorStatuses : ErrorResponse("A", s, status)
    \/ \E s \in Slots, tok \in NextToken \cup {"t1"} : OkResponse("A", s, tok)
    \/ \E s \in Slots, tok \in NextToken : RefreshOk("A", s, tok)
    \/ \E s \in Slots, status \in ErrorStatuses : RefreshFail("A", s, status)
    \/ SessionExpires
SpecBoot == InitBoot /\ [][NextBoot]_vars /\ WF_vars(BootSettles("A"))

\* SpecSync: two tabs of a logged-in user, each opened once. Tab B restores
\* its session at boot and makes one request, which succeeds; tab A boots,
\* makes one request (a mailbox read with the refresh cycle of the
\* interceptor, or a Google login whose result is persisted). The refresh endpoint
\* answers 200, 401 (once the session has expired) or not at all.
InitSync == InitHttp /\ session /\ lsUser = "u1"
NextSync ==
    \/ \E t \in Tabs : ~loaded[t] /\ Load(t)
    \/ \E url \in CallerUrls : Send("A", 1, url)
    \/ \E u \in Users : PersistLogin("A", 1, u)
    \/ \E s \in Slots, status \in {0, 401} : ErrorResponse("A", s, status)
    \/ \E s \in Slots, tok \in NextToken \cup {"t1"} : OkResponse("A", s, tok)
    \/ Send("B", 1, MailboxesUrl)
    \/ \E s \in Slots, tok \in NextToken \cup {"t1"} : OkResponse("B", s, tok)
    \/ \E tok \in NextToken : RefreshOk("A", 1, tok)
    \/ \E status \in {0, 401} : RefreshFail("A", 1, status)
    \/ SessionExpires
    \/ \E t \in Tabs : Recv(t)
    \/ \E t \in Tabs : StorageEvent(t)
SpecSync == InitSync /\ [][NextSync]_vars

\* SpecStorage: two tabs of a logged-in user in a browser without
\* BroadcastChannel, each opened once: the 'storage' event is the only thing
\* that tells a tab what another context did. Both tabs restore the session at
\* boot unless tab A's refresh gets no response; tab A's user is set or unset
\* through the context; another script can corrupt the stored user.
InitStorage == Init /\ ~bcSupported /\ session /\ lsUser = "u1" /\ store = EmptyStore
NextStorage ==
    \/ \E t \in Tabs : ~loaded[t] /\ Load(t)
    \/ \E t \in Tabs, tok \in NextToken : OkResponse(t, BootSlot, tok)
    \/ ErrorResponse("A", BootSlot, 0)
    \/ \E u \in Users \cup {Null} : SetUser("A", u)
    \/ OtherWriter
    \/ \E t \in Tabs, key \in EventKeys : handleStorage(t, key)
SpecStorage == InitStorage /\ [][NextStorage]_vars

\* SpecWatch: the inbox page of one tab of a logged-in user, in a browser
\* session that starts without the watch flag. The page can be reloaded, the
\* inbox page mounted again, the user set or unset through the context; the
\* boot-time refresh succeeds or gets no response; a start call resolves or
\* rejects.
InitWatch == Init /\ bcSupported /\ session /\ lsUser = "u1" /\ store = EmptyStore
NextWatch ==
    \/ Load("A")
    \/ \E tok \in NextToken : OkResponse("A", BootSlot, tok)
    \/ ErrorResponse("A", BootSlot, 0)
    \/ \E u \in Users \cup {Null} : SetUser("A", u)
    \/ MountInbox("A")
    \/ StartWatchEffect("A")
    \/ startGmailWatchThen("A")
    \/ startGmailWatchCatch("A")
SpecWatch == InitWatch /\ [][NextWatch]_vars

\* SpecSelection: one mounted list view: the lists and the mailbox it is
\* rendered with, the clicks of the user, the effects of the hook.
InitSelection == Init /\ bcSupported /\ session /\ lsUser = "u1" /\ store = EmptyStore
NextSelection ==
    \/ RunEffects
    \/ \E l \in EmailLists : EmailsChange(l)
    \/ \E m \in SelectableMailboxes, l \in EmailLists : MailboxChange(m, l)
    \/ \E id \in ListedIds : setSelectedEmailId(id)
SpecSelection == InitSelection /\ [][NextSelection]_vars

\* SpecTimer: the token holder of lib/auth in two tabs, each opened once,
\* driven through everything that reaches it: the boot-time refresh (which
\* succeeds, or fails and clears), setAccessToken with a token that has an
\* expiry, one that has none, or null, clearLocalAuth, the logout message of
\* the other tab, and the watcher's timeout.
InitTimer == Init /\ bcSupported /\ session /\ lsUser = "u1" /\ store = EmptyStore
NextTimer ==
    \/ \E t \in Tabs : ~loaded[t] /\ Load(t)
    \/ \E t \in Tabs, tok \in NextToken : OkResponse(t, BootSlot, tok)
    \/ \E t \in Tabs : ErrorResponse(t, BootSlot, 0)
    \/ \E t \in Tabs, tok \in Tokens \cup {Null} : SetToken(t, tok)
    \/ \E t \in Tabs : ClearLocal(t)
    \/ \E t \in Tabs : Recv(t)
    \/ \E t \in Tabs, id \in Tokens : TimerFires(t, id)
SpecTimer == InitTimer /\ [][NextTimer]_vars

\* SpecTabs: two tabs of one browser profile. The user works in tab A (Google
\* login, logout); tab B is a background tab with its own requests and refresh
\* cycles. Each tab is opened once. The user is logged in and the session valid
\* when the tabs open and only the logout endpoint ends it; the
\* server rejects with 401 only (B) or with 401/500 (A's calls).
InitTabs ==
    Init /\ bcSupported /\ session /\ lsUser = "u1" /\ store = EmptyStore
NextTabs ==
    \/ \E t \in Tabs : ~loaded[t] /\ Load(t)
    \/ Send("A", 1, GoogleLoginUrl)
    \/ \E s \in Slots, status \in {401, 500} : ErrorResponse("A", s, status)
    \/ \E s \in Slots, tok \in NextToken \cup {"t1"} : OkResponse("A", s, tok)
    \/ \E u \in Users : PersistLogin("A", 1, u)
    \/ Logout("A")
    \/ LogoutCacheCleared("A")
    \/ Send("B", 1, MailboxesUrl)
    \/ \E s \in Slots : ErrorResponse("B", s, 401)
    \/ \E s \in Slots, tok \in NextToken \cup {"t1"} : OkResponse("B", s, tok)
    \/ \E s \in Slots, tok \in NextToken : RefreshOk("B", s, tok)
    \/ \E s \in Slots : RefreshFail("B", s, 401)
    \/ \E t \in Tabs : Recv(t)
    \/ StorageEvent("B")
SpecTabs == InitTabs /\ [][NextTabs]_vars

\* SpecCache: the mailbox-list and email-list reads of the facade and the
\* push handler of one tab, over a store that is empty or holds every entry
\* when the page opens.
FullStore == [k \in Keys |-> Entry("old")]
InitCache ==
    Init /\ bcSupported /\ session /\ lsUser = "u1" /\ store \in {EmptyStore, FullStore}
NextCache ==
    \/ \E c \in CallIds, k \in {MailboxesKey} \cup EmailListKeys : CallFacade("A", c, k)
    \/ \E c \in CallIds, ok \in BOOLEAN : getMailboxesCached(c, ok)
    \/ \E c \in CallIds, ok \in BOOLEAN : getMailboxEmailsInfiniteCached(c, ok)
    \/ \E c \in CallIds : LiveOk(c)
    \/ \E c \in CallIds : LiveFail(c)
    \/ \E c \in CallIds, ok \in BOOLEAN : LiveCached(c, ok)
    \/ \E c \in CallIds : BgOk(c)
    \/ \E c \in CallIds : BgFail(c)
    \/ \E c \in CallIds, ok \in BOOLEAN : BgCached(c, ok)
    \/ ServerChange
    \/ \E n \in Notifications : handleGmailNotification("A", n)
    \/ \E which \in {"lists", "mailboxes"} : InvalidationDone("A", which)
SpecCache == InitCache /\ [][NextCache]_vars

\* SpecReads: the mailbox-list and email-list reads of SpecCache with their
\* background revalidations, and no push notification.
NextReads ==
    \/ \E c \in CallIds, k \in {MailboxesKey} \cup EmailListKeys : CallFacade("A", c, k)
    \/ \E c \in CallIds, ok \in BOOLEAN : getMailboxesCached(c, ok)
    \/ \E c \in CallIds, ok \in BOOLEAN : getMailboxEmailsInfiniteCached(c, ok)
    \/ \E c \in CallIds : LiveOk(c)
    \/ \E c \in CallIds : LiveFail(c)
    \/ \E c \in CallIds, ok \in BOOLEAN : LiveCached(c, ok)
    \/ \E c \in CallIds : BgOk(c)
    \/ \E c \in CallIds : BgFail(c)
    \/ \E c \in CallIds, ok \in BOOLEAN : BgCached(c, ok)
    \/ ServerChange
SpecReads == InitCache /\ [][NextReads]_vars

\* SpecPush: the push handler of one tab next to one read at a time of any of
\* the three kinds, over a store that is empty or holds every entry when the
\* page opens.
NextPush ==
    \/ \E n \in Notifications : handleGmailNotification("A", n)
    \/ \E which \in {"lists", "mailboxes"} : InvalidationDone("A", which)
    \/ \E c \in {1}, k \in Keys : CallFacade("A", c, k)
    \/ \E c \in {1}, ok \in BOOLEAN : getMailboxesCached(c, ok)
    \/ \E c \in {1}, ok \in BOOLEAN : getMailboxEmailsInfiniteCached(c, ok)
    \/ \E c \in {1}, ok \in BOOLEAN : getEmailDetailCached(c, ok)
    \/ \E c \in {1} : LiveOk(c)
    \/ \E c \in {1} : LiveFail(c)
    \/ \E c \in {1}, ok \in BOOLEAN : LiveCached(c, ok)
    \/ \E c \in {1} : BgOk(c)
    \/ \E c \in {1} : BgFail(c)
    \/ \E c \in {1}, ok \in BOOLEAN : BgCached(c, ok)
    \/ ServerChange
SpecPush == InitCache /\ [][NextPush]_vars

\* SpecCacheTabs: two tabs over the store of their origin, which holds every
\* entry when they open. Tab A is connected to the push channel; tab B reads
\* the mailbox list and the first page of the inbox (the reads that start with
\* a cache read) through the facade and gets no push notification.
InitCacheTabs ==
    Init /\ bcSupported /\ session /\ lsUser = "u1" /\ store = FullStore
NextCacheTabs ==
    \/ \E n \in Notifications : handleGmailNotification("A", n)
    \/ \E which \in {"lists", "mailboxes"} : InvalidationDone("A", which)
    \/ \E c \in CallIds, k \in {MailboxesKey, EmailListKey("INBOX", Null)} :
          CallFacade("B", c, k)
    \/ \E c \in CallIds, ok \in BOOLEAN : getMailboxesCached(c, ok)
    \/ \E c \in CallIds, ok \in BOOLEAN : getMailboxEmailsInfiniteCached(c, ok)
    \/ \E c \in CallIds : LiveOk(c)
    \/ \E c \in CallIds : LiveFail(c)
    \/ \E c \in CallIds, ok \in BOOLEAN : LiveCached(c, ok)
    \/ \E c \in CallIds : BgOk(c)
    \/ \E c \in CallIds : BgFail(c)
    \/ \E c \in CallIds, ok \in BOOLEAN : BgCached(c, ok)
    \/ ServerChange
SpecCacheTabs == InitCacheTabs /\ [][NextCacheTabs]_vars

\* SpecMutate: one tab: reads of all three kinds through the facade with
\* their background revalidations, and the mutations, over a store that is
\* empty or holds every entry when the page opens.
NextMutate ==
    \/ \E c \in {1}, k \in Keys : CallFacade("A", c, k)
    \/ \E c \in {1}, ok \in BOOLEAN : getMailboxesCached(c, ok)
    \/ \E c \in {1}, ok \in BOOLEAN : getMailboxEmailsInfiniteCached(c, ok)
    \/ \E c \in {1}, ok \in BOOLEAN : getEmailDetailCached(c, ok)
    \/ \E c \in {1} : LiveOk(c)
    \/ \E c \in {1} : LiveFail(c)
    \/ \E c \in {1}, ok \in BOOLEAN : LiveCached(c, ok)
    \/ \E c \in {1} : BgOk(c)
    \/ \E c \in {1} : BgFail(c)
    \/ \E c \in {1}, ok \in BOOLEAN : BgCached(c, ok)
    \/ \E kind \in MutationKinds, id \in EmailIds \cup {Null}, delete \in BOOLEAN :
          Mutate(kind, id, delete)
    \/ MutateLiveFail
    \/ MutateLiveOk
    \/ MutateInvalidated
SpecMutate == InitCache /\ [][NextMutate]_vars

TypeOK ==
    /\ \A t \in Tabs : accessTokenMemory[t] \in Tokens \cup {Null}
    /\ \A t \in Tabs : Len(pendingRequests[t]) <= MaxReqs + 2
    /\ store \in [Keys -> {Absent} \cup {Entry(v) : v \in Versions}]
    /\ mut.kind \in MutationKinds \cup {"none"}
    /\ mut.pc \in {"idle", "live", "invalidating", "returned", "threw"}
    /\ mut.invalidated \subseteq Keys
    /\ \A t \in Tabs : watch[t].pending \in 0..MaxWatchCalls
    /\ selection.emails \in EmailLists
    /\ selection.selectedEmailId \in ListedIds \cup {Null}

\* --------------------------------------------------------------- claims ---
\* requests whose handler awaits a refresh call it issued
Refreshers(t) == {s \in AllSlots : req[t][s].st = "refreshing"}
\* calls to POST /api/auth/refresh that are in flight in tab t
RefreshCallsInFlight(t) ==
    Cardinality(Refreshers(t))
    + Cardinality({s \in AllSlots : req[t][s].st = "flight" /\ req[t][s].url = RefreshUrl})

\* C1: in every reachable state of a tab at most one call to the refresh
\* endpoint is in flight, whether the interceptor or the boot-time refresh of
\* AuthProvider issued it.
C1_SingleFlightAllPaths ==
    \A t \in Tabs : RefreshCallsInFlight(t) <= 1

\* C2 (as claimed): requests sent with the same expired token that all get 401
\* are served by one refresh call, whatever the order of the responses: none of
\* them starts a refresh once another has been resubmitted, and all are
\* resubmitted with the same token.
C2_OneRefreshWhateverOrder ==
    \A t \in Tabs : \A r1, r2 \in Reqs :
        ( /\ r1 # r2
          /\ req[t][r1].hdr0 # Null /\ req[t][r1].hdr0 = req[t][r2].hdr0
          /\ req[t][r1].retry /\ req[t][r2].retry
          /\ req[t][r1].sends >= 2 )
        => /\ req[t][r2].st # "refreshing"
           /\ req[t][r2].sends >= 2 => req[t][r2].rtok = req[t][r1].rtok

\* C2 (amended): while an interceptor refresh call is in flight, a 401 of a
\* not yet retried non-auth request starts no other refresh call and is queued
\* behind it; when that call succeeds, the refresher's request and every queued
\* request are resubmitted once, all with the token of that one response, and
\* the queue is emptied.
C2_OneRefreshPerWindow ==
    [][\A t \in Tabs :
        /\ \A s \in Slots :
             ( /\ ErrorResponse(t, s, 401)
               /\ Refreshers(t) # {}
               /\ ~req[t][s].retry /\ ~isAuthEndpoint(req[t][s].url) )
             => /\ Refreshers(t)' = Refreshers(t)
                /\ req'[t][s].st = "queued"
                /\ pendingRequests'[t] = Append(pendingRequests[t], s)
        /\ \A s \in Slots, tok \in Tokens :
             RefreshOk(t, s, tok)
             => /\ \A q \in Refreshers(t) \cup Range(pendingRequests[t]) :
                     /\ req'[t][q].st = "flight"
                     /\ req'[t][q].hdr = tok
                     /\ req'[t][q].sends = req[t][q].sends + 1
                /\ pendingRequests'[t] = <<>>
                /\ RefreshCallsInFlight(t)' = RefreshCallsInFlight(t) - 1
      ]_vars

\* two requests that failed with the same token were resubmitted by one
\* refresh cycle with the same new token
C2_Witness ==
    \E r1, r2 \in Reqs :
        /\ r1 # r2
        /\ req["A"][r1].hdr0 # Null /\ req["A"][r1].hdr0 = req["A"][r2].hdr0
        /\ req["A"][r1].st = "flight" /\ req["A"][r2].st = "flight"
        /\ req["A"][r1].sends = 2 /\ req["A"][r2].sends = 2
        /\ req["A"][r1].hdr = req["A"][r2].hdr
        /\ req["A"][r1].hdr # req["A"][r1].hdr0

\* C3: a 401 of a request to an auth endpoint, or of a request already marked
\* retried, starts no refresh and queues nothing; a caller gets that very error;
\* so no request is submitted more than twice.
C3_NoRefreshForAuthOrRetried ==
    [][\A t \in Tabs : \A s \in Slots :
        ( /\ ErrorResponse(t, s, 401)
          /\ (isAuthEndpoint(req[t][s].url) \/ req[t][s].retry) )
        => /\ RefreshCallsInFlight(t)' <= RefreshCallsInFlight(t)
           /\ Refreshers(t)' = Refreshers(t)
           /\ pendingRequests'[t] = pendingRequests[t]
           /\ isRefreshing'[t] = isRefreshing[t]
           /\ req'[t][s].sends <= 2
           /\ s \in Reqs => /\ req'[t][s].st = "err"
                            /\ req'[t][s].err = 401
                            /\ req'[t][s].errOf = "own"
      ]_vars

\* a retried request got 401 again and its caller has that error
C3_Witness ==
    \E r \in Reqs :
        /\ req["A"][r].st = "err" /\ req["A"][r].retry
        /\ req["A"][r].err = 401 /\ req["A"][r].errOf = "own"
        /\ req["A"][r].sends = 2

\* C4: a non-auth request that got 401, was resubmitted after a successful
\* refresh and then succeeded: its resubmission carried the token of the
\* refresh response, and the caller's promise is resolved with the response to
\* the resubmission (no error reaches the caller).
C4_RetryTransparent ==
    \A t \in Tabs : \A r \in Reqs :
        (req[t][r].retry /\ req[t][r].sends >= 2)
        => /\ req[t][r].hdr = req[t][r].rtok
           /\ req[t][r].rtok # Null
           /\ req[t][r].st \in {"flight", "ok", "err"}
           /\ req[t][r].st = "ok" => req[t][r].ans = 2
           /\ req[t][r].st = "err" => (req[t][r].errOf = "own" /\ req[t][r].ans = 2)

\* the caller of a request first sent with an expired token holds the response
\* of the resubmission made with the renewed token
C4_Witness ==
    \E r \in Reqs :
        /\ req["A"][r].st = "ok" /\ req["A"][r].retry
        /\ req["A"][r].ans = 2 /\ req["A"][r].hdr \in Tokens

\* C5: when the refresh call issued by the interceptor fails, the token is
\* null and the stored user removed, location.assign('/login') is called
\* exactly when the path is not /login, and the refresher's request is
\* rejected with the error of the refresh call.
C5_RefreshFailureClearsAuth ==
    [][\A t \in Tabs : \A s \in Slots, status \in ErrorStatuses :
        RefreshFail(t, s, status)
        => /\ accessTokenMemory'[t] = Null
           /\ lsUser' = Null
           /\ accessExpiryTimer'[t] = Null /\ timers'[t] = {}
           /\ nav'[t] = IF path[t] # LoginPath THEN "toLogin" ELSE nav[t]
           /\ req'[t][s].st = "err"
           /\ req'[t][s].errOf = "refresh" /\ req'[t][s].err = status
           /\ ~isRefreshing'[t]
      ]_vars

\* a refresh failed on /login: auth state is cleared and no redirect started
C5_Witness ==
    \E r \in Reqs :
        /\ req["A"][r].st = "err" /\ req["A"][r].errOf = "refresh"
        /\ path["A"] = LoginPath /\ nav["A"] = "none"
        /\ accessTokenMemory["A"] = Null /\ lsUser = Null

\* C6: tab A's user logs out and one logout message goes out. Tab B, whose
\* user does not log out, clears its token and user on receiving it and never
\* puts a logout message on the channel itself, whatever B has in flight: the
\* only logout messages are those of A's logout.
C6_NoLogoutEcho ==
    \A i \in 1..Len(inbox["A"]) :
        ~(inbox["A"][i].type = "logout" /\ inbox["A"][i].from = "B")

\* C7: persistLoginInfo(user, token) in a tab with an open channel puts exactly
\* one login message carrying both values in front of every other listening tab
\* and none in front of itself; a tab that handles the message holds that user
\* and that token afterwards, and no request of it is sent, resent or settled
\* by the handling.
C7_LoginReachesTabs ==
    [][\A t \in Tabs :
        /\ \A r \in Reqs, u \in Users :
             (PersistLogin(t, r, u) /\ authChannel[t])
             => /\ inbox'[t] = inbox[t]
                /\ \A o \in Tabs \ {t} :
                     Listening(o)
                     => inbox'[o] = Append(inbox[o],
                                           [type |-> "login", user |-> u,
                                            accessToken |-> accessTokenMemory'[t],
                                            from |-> t])
                /\ accessTokenMemory'[t] = req[t][r].data
                /\ lsUser' = u
        /\ (Recv(t) /\ Head(inbox[t]).type = "login")
             => /\ user'[t] = Head(inbox[t]).user
                /\ accessTokenMemory'[t] = Head(inbox[t]).accessToken
                /\ req'[t] = req[t]
                /\ pendingRequests'[t] = pendingRequests[t]
                /\ isRefreshing'[t] = isRefreshing[t]
      ]_vars

\* tab B holds the user and the token of a login made in tab A, while tab A
\* holds the same token and B never sent a login request
C7_Witness ==
    /\ user["B"] = "u2" /\ lsUser = "u2"
    /\ accessTokenMemory["B"] \in Tokens
    /\ accessTokenMemory["B"] = accessTokenMemory["A"]
    /\ req["A"][1].st = "done" /\ req["A"][1].url = GoogleLoginUrl
    /\ inbox["B"] = <<>>

\* C8: when the cache read of getMailboxesCached gives an entry, the call
\* returns that entry's value in the same step in which it starts the live
\* fetch: the caller has the cached value while the fetch is still in flight.
C8_CachedBeforeLive ==
    [][\A c \in CallIds, ok \in BOOLEAN :
        (getMailboxesCached(c, ok) /\ ok /\ store[MailboxesKey].present)
        => /\ call'[c].pc = "returned"
           /\ call'[c].result = store[MailboxesKey]
           /\ call'[c].from = "cache"
           /\ call'[c].bg = "fetching"
           /\ store' = store
      ]_vars

\* the caller holds a cached mailbox list older than the server's data while
\* the revalidation is still in flight
C8_Witness ==
    \E c \in CallIds :
        /\ call[c].op = "mailboxes" /\ call[c].pc = "returned"
        /\ call[c].from = "cache" /\ call[c].bg = "fetching"
        /\ call[c].result.data = "old" /\ server = "new"

\* C9: for every mailbox and page token, first page or later: a call of
\* getMailboxEmailsInfiniteCached whose cache read gave an entry for that page
\* returns that page, not an error, when its live fetch fails -- the awaited
\* fetch of a later page as well as the background fetch of a first page.
C9_CachedPageOnFailure ==
    [][\A c \in CallIds :
        /\ (LiveFail(c) /\ call[c].op = "list" /\ call[c].cached.present)
             => /\ call'[c].pc = "returned"
                /\ call'[c].result = call[c].cached
                /\ store' = store
        /\ (BgFail(c) /\ call[c].op = "list")
             => /\ call[c].key.pageToken = Null
                /\ call[c].cached.present
                /\ call'[c].pc = "returned"
                /\ call'[c].result = call[c].cached
                /\ store' = store
      ]_vars

\* a later page was served from the cache after its live fetch failed
C9_Witness ==
    \E c \in CallIds :
        /\ call[c].op = "list" /\ call[c].key.pageToken = "p2"
        /\ call[c].pc = "returned" /\ call[c].from = "cache"
        /\ call[c].bg = "none" /\ call[c].result.present

\* C10: on every push notification, when handleGmailNotification calls
\* queryClient.invalidateQueries, the mailbox-list entry and every email-list
\* entry are absent from the store, whatever background revalidations and reads
\* run meanwhile; and it is called only after both invalidations completed.
C10_StoreEmptyAtRefetchSignal ==
    [][\A t \in Tabs :
        (push[t].pc # "signalled" /\ push'[t].pc = "signalled")
        => /\ push'[t].lists /\ push'[t].mailboxes
           /\ \A k \in {MailboxesKey} \cup EmailListKeys : ~store'[k].present
      ]_vars

\* C17: no call to the refresh endpoint carries an Authorization header,
\* whether the interceptor (performTokenRefresh) or the boot code
\* (rotateTokens) makes it, whatever token is held at that moment.
C17_RefreshWithoutBearer ==
    \A t \in Tabs : \A s \in Slots :
        /\ req[t][s].st = "refreshing" => req[t][s].rhdr = Null
        /\ (req[t][s].st = "flight" /\ req[t][s].url = RefreshUrl)
             => req[t][s].hdr = Null

\* C18: when a refresh cycle ends, by success or by failure, the queue is
\* empty and every continuation that was queued during the cycle has been
\* invoked once by it (its request resubmitted).
C18_QueueDrainedEveryCycle ==
    [][\A t \in Tabs : \A s \in Slots :
        ( \/ \E tok \in Tokens : RefreshOk(t, s, tok)
          \/ \E status \in ErrorStatuses : RefreshFail(t, s, status) )
        => /\ pendingRequests'[t] = <<>>
           /\ \A q \in Range(pendingRequests[t]) :
                /\ req'[t][q].st = "flight"
                /\ req'[t][q].sends = req[t][q].sends + 1
      ]_vars

\* C19: when the refresh call fails while requests are queued behind it, the
\* cycle ends (isRefreshing false) without touching the queue or any queued
\* request: each stays queued, its caller's promise neither resolved nor
\* rejected.
C19_QueuedLeftPending ==
    [][\A t \in Tabs : \A s \in Slots, status \in ErrorStatuses :
        RefreshFail(t, s, status)
        => /\ ~isRefreshing'[t]
           /\ pendingRequests'[t] = pendingRequests[t]
           /\ \A q \in Range(pendingRequests[t]) :
                /\ req[t][q].st = "queued"
                /\ req'[t][q] = req[t][q]
      ]_vars

\* a refresh cycle has ended in failure and a request queued behind it is
\* still pending, with no refresh in flight that could resume it
C19_Witness ==
    \E r, q \in Reqs :
        /\ req["A"][r].st = "err" /\ req["A"][r].errOf = "refresh"
        /\ req["A"][q].st = "queued" /\ q \in Range(pendingRequests["A"])
        /\ ~isRefreshing["A"] /\ Refreshers("A") = {}

\* C16: when logout() completes (its awaited email-cache clear has settled),
\* whether the logout call succeeded, failed or was skipped, the tab's access
\* token is null, the stored user is absent and the in-memory user is null.
C16_LoggedOutWhenLogoutCompletes ==
    [][\A t \in Tabs :
        LogoutCacheCleared(t)
        => /\ accessTokenMemory'[t] = Null
           /\ user'[t] = Null
           /\ lsUser' = Null
      ]_vars

\* C20: in every reachable state, a tab that holds an access token has a
\* StoredUser in durable storage -- stated here only for the states in which
\* the tab has handled every auth message and storage event sent to it.
C20_TokenImpliesStoredUser ==
    \A t \in Tabs :
        (loaded[t] /\ accessTokenMemory[t] # Null /\ inbox[t] = <<>> /\ ~lsEvent[t])
        => lsUser # Null

CascadeTable(kind, id) ==
    CASE kind \in {"send", "forward"} -> EmailListKeys
      [] kind = "reply" -> {EmailKey(id)} \cup EmailListKeys
      [] OTHER -> {EmailKey(id)} \cup EmailListKeys \cup {MailboxesKey}

\* C12: a mutation awaits its live call before it touches the cache: calling it
\* leaves every entry unchanged, a failed live call ends it with the error at
\* the caller and every entry unchanged, entries are invalidated only once the
\* live call has succeeded, and no step of a mutation gives an entry a value.
C12_LiveFirstThenInvalidate ==
    [][ mut' # mut =>
          /\ mut'.pc = "live" => store' = store
          /\ mut.pc = "live" =>
                /\ store' = store
                /\ mut'.pc \in {"threw", "invalidating"}
                /\ mut'.invalidated = {}
          /\ mut'.pc = "threw" => mut.pc = "live" /\ mut'.todo = <<>>
          /\ store' # store => mut.pc = "invalidating"
          /\ \A k \in Keys : store'[k] \in {store[k], Absent} ]_vars

\* C12 witness: a reply whose live call failed, with the target's detail, the
\* list pages and the mailbox list still cached
C12_Witness ==
    /\ mut.kind = "reply" /\ mut.pc = "threw" /\ mut.emailId = "e1"
    /\ \A k \in Keys : store[k].present

\* C13: a step of a successful mutation changes only entries the cascade table
\* lists for its kind and leaves the entries it invalidates absent; when the
\* mutation returns, the entries it has invalidated are exactly the table's.
C13_CascadeExact ==
    [][ mut.pc = "invalidating" /\ mut' # mut =>
          /\ \A k \in Keys :
                store'[k] # store[k] => k \in CascadeTable(mut.kind, mut.emailId)
          /\ \A k \in mut'.invalidated \ mut.invalidated : store'[k] = Absent
          /\ mut'.invalidated \subseteq CascadeTable(mut.kind, mut.emailId)
          /\ mut'.pc = "returned" =>
                mut'.invalidated = CascadeTable(mut.kind, mut.emailId) ]_vars

\* C13 witness: a modify of e1 has returned: the detail of e1, the list pages
\* and the mailbox list are absent, the detail of e2 is still cached
C13_Witness ==
    /\ mut.kind = "modify" /\ mut.pc = "returned" /\ mut.emailId = "e1"
    /\ ~store[EmailKey("e1")].present /\ ~store[MailboxesKey].present
    /\ \A k \in EmailListKeys : ~store[k].present
    /\ store[EmailKey("e2")].present

\* the reads that have a hit path: mailbox list, first list page, email detail
StaleWhileRevalidateKeys ==
    {MailboxesKey} \cup {EmailListKey(m, Null) : m \in Mailboxes} \cup EmailKeys

\* C14: a read of the mailbox list, of a first list page or of an email detail
\* whose cache read gave nothing awaits the live fetch; when the fetch
\* succeeds, the server's response is put under the key of the read (a store
\* that silently fails the write keeps what it had) and that response is
\* returned; when the fetch fails, the call throws and no entry changes.
C14_MissAwaitsLive ==
    [][\A c \in CallIds :
         LET cl == call[c]
             after == call'[c]
         IN cl.key \in StaleWhileRevalidateKeys /\ after # cl =>
              /\ cl.pc = "reading" /\ ~after.cached.present =>
                    after.pc = "fetching" /\ store' = store
              /\ cl.pc = "fetching" /\ ~cl.cached.present =>
                    \/ /\ after.pc = "writing"
                       /\ after.result = Entry(server)
                       /\ store' = store
                    \/ /\ after.pc = "threw"
                       /\ store' = store
              /\ cl.pc = "writing" /\ ~cl.cached.present =>
                    /\ after.pc = "returned" /\ after.from = "live"
                    /\ after.result = cl.result
                    /\ \/ store' = [store EXCEPT ![cl.key] = cl.result]
                       \/ store' = store ]_vars

\* C14 witness: a read of an email detail that found nothing has returned the
\* live response, which is now the cache entry of that email
C14_Witness ==
    \E c \in CallIds :
        /\ call[c].op = "detail" /\ call[c].pc = "returned"
        /\ ~call[c].cached.present /\ call[c].from = "live"
        /\ call[c].result.present /\ store[call[c].key] = call[c].result

\* C15: when a background revalidation fails, at the fetch or at the cache
\* write, no entry changes and the call that started it keeps the outcome it
\* had returned; an entry gets a value only from a fetch that succeeded, at
\* the cache write of that read or revalidation.
C15_BackgroundFailureIsNoOp ==
    [][ /\ \A c \in CallIds :
             call[c].bg \in {"fetching", "writing"} /\ call'[c].bg = "failed" =>
                /\ store' = store
                /\ call'[c].pc = "returned" /\ call'[c].from = "cache"
                /\ call'[c].result = call[c].result
        /\ \A k \in Keys :
             store'[k] # store[k] /\ store'[k].present =>
                \E c \in CallIds :
                   /\ call[c].key = k
                   /\ \/ call[c].pc = "writing" /\ store'[k] = call[c].result
                      \/ call[c].bg = "writing" /\ store'[k] = call[c].bgval ]_vars

\* C15 witness: the revalidation of a cached email detail has failed after the
\* server's data changed: the caller has the cached value, the entry is as it was
C15_Witness ==
    \E c \in CallIds :
        /\ call[c].op = "detail" /\ call[c].bg = "failed" /\ call[c].pc = "returned"
        /\ server = "new"
        /\ store[call[c].key] = call[c].cached /\ call[c].cached = Entry("old")

\* C21: no background revalidation puts its response into an entry that an
\* invalidation has emptied since the revalidation's fetch was issued (the
\* fetch is issued by the hit, when the entry was there).
C21_NoRepopulationByEarlierFetch ==
    [][\A c \in CallIds :
         ( /\ call[c].bg = "writing" /\ call[c].cached.present
           /\ ~store[call[c].key].present )
         => ~store'[call[c].key].present ]_vars

\* C22: when the refresh call of a refresher succeeds, the continuations are
\* notified with the new token in the order in which they were queued, each
\* once, and the refresher's own request is resubmitted after all of them; the
\* queue is empty afterwards.
C22_DrainedInFifoOrder ==
    [][\A t \in Tabs : \A s \in AllSlots, tok \in Tokens :
         RefreshOk(t, s, tok) =>
            LET queue == pendingRequests[t] IN
            /\ \A i \in 1..Len(queue) :
                  /\ req'[t][queue[i]].ord = i
                  /\ req'[t][queue[i]].rtok = tok
                  /\ req'[t][queue[i]].st = "flight"
                  /\ req'[t][queue[i]].sends = Inc(req[t][queue[i]].sends)
            /\ \A i, j \in 1..Len(queue) : queue[i] = queue[j] => i = j
            /\ req'[t][s].ord = Len(queue) + 1
            /\ s \notin Range(queue)
            /\ pendingRequests'[t] = <<>> ]_vars

\* C22 witness: two queued requests and the refresher have been resubmitted
\* by one refresh cycle, the request that was sent second having been queued
\* first
C22_Witness ==
    /\ req["A"][2].ord = 1 /\ req["A"][1].ord = 2 /\ req["A"][LateSlot].ord = 3
    /\ req["A"][1].st = "flight" /\ req["A"][2].st = "flight"
    /\ req["A"][LateSlot].st = "flight"

\* C23: the in-flight flag of a tab is set exactly while a refresh call issued
\* by its interceptor is pending; so when such a call has settled, a 401 of a
\* non-auth request that was not retried yet makes that request the refresher
\* of a new refresh call and queues nothing.
C23_FlagOnlyWhileRefreshPending ==
    /\ [](\A t \in Tabs : isRefreshing[t] <=> Refreshers(t) # {})
    /\ [][\A t \in Tabs : \A s \in AllSlots :
            ( /\ ErrorResponse(t, s, 401)
              /\ Refreshers(t) = {}
              /\ ~req[t][s].retry /\ ~isAuthEndpoint(req[t][s].url) )
            => /\ Refreshers(t)' = {s}
               /\ pendingRequests'[t] = pendingRequests[t] ]_vars

\* C23 witness: one refresh cycle has succeeded and one has failed, and a
\* request is the refresher of a third one
C23_Witness ==
    /\ Refreshers("A") = {LateSlot} /\ isRefreshing["A"]
    /\ req["A"][1].errOf = "refresh"
    /\ req["A"][2].rtok # Null

\* C24: the mount of AuthProvider with no StoredUser issues no refresh call and
\* sets bootstrapped; with a StoredUser it issues exactly one refresh call.
\* When that call succeeds the tab holds the returned token, the user and the
\* StoredUser are as they were and bootstrapped is set; when it fails the
\* token, the StoredUser and the user are null and bootstrapped is set. So a
\* mounted provider whose refresh call settles is eventually bootstrapped.
C24_BootRefresh ==
    /\ [][\A t \in Tabs :
            /\ Load(t) =>
                 IF lsUser = Null
                 THEN bootstrapped'[t] /\ RefreshCallsInFlight(t)' = 0
                 ELSE /\ ~bootstrapped'[t]
                      /\ RefreshCallsInFlight(t)' = 1
                      /\ req'[t][BootSlot].st = "flight"
                      /\ req'[t][BootSlot].url = RefreshUrl
                      /\ user'[t] = lsUser
            /\ \A tok \in Tokens :
                 OkResponse(t, BootSlot, tok) =>
                    /\ accessTokenMemory'[t] = tok
                    /\ user'[t] = user[t] /\ lsUser' = lsUser
                    /\ bootstrapped'[t]
            /\ \A status \in ErrorStatuses :
                 ErrorResponse(t, BootSlot, status) =>
                    /\ accessTokenMemory'[t] = Null
                    /\ lsUser' = Null /\ user'[t] = Null
                    /\ bootstrapped'[t] ]_vars
    /\ \A t \in Tabs : loaded[t] ~> bootstrapped[t]

\* C24 witness: the boot-time refresh has succeeded: the tab is bootstrapped
\* and holds a token, its user is the StoredUser
C24_Witness ==
    /\ loaded["A"] /\ bootstrapped["A"]
    /\ accessTokenMemory["A"] # Null
    /\ user["A"] = "u1" /\ lsUser = "u1"
    /\ req["A"][1].st = "idle"

\* a continuation that a failed refresh cycle has left in the queue of tab t:
\* queued, with no refresh call pending
Leftover(t, s) ==
    /\ req[t][s].st = "queued" /\ s \in Range(pendingRequests[t])
    /\ Refreshers(t) = {}

\* every queued continuation is invoked by a successful refresh cycle, with
\* the token of that cycle
SuccessInvokesQueued(t) ==
    \A r \in AllSlots, tok \in Tokens :
        RefreshOk(t, r, tok) =>
           \A s \in Range(pendingRequests[t]) :
              /\ req'[t][s].st = "flight"
              /\ req'[t][s].rtok = tok /\ req'[t][s].hdr = tok
              /\ req'[t][s].sends = Inc(req[t][s].sends)

\* C25 (as claimed): a continuation left in the queue by a failed refresh
\* cycle stays in the queue, whatever the tab does next, and the next
\* successful refresh cycle of the tab invokes it with its token.
C25_LeftoverStaysQueued ==
    [][\A t \in Tabs :
         /\ \A s \in AllSlots :
               Leftover(t, s) =>
                  req'[t][s].st = "queued" /\ s \in Range(pendingRequests'[t])
         /\ SuccessInvokesQueued(t) ]_vars

\* C25 (amended): a continuation left in the queue by a failed refresh cycle
\* stays in the queue as long as the page is not reloaded, and the next
\* successful refresh cycle of that page invokes it with its token; a reload
\* (the failed cycle starts one with location.assign unless the tab is on
\* /login) empties the queue and the request is never resubmitted.
C25_LeftoverStaysUntilReload ==
    [][\A t \in Tabs :
         /\ \A s \in AllSlots :
               Leftover(t, s) =>
                  IF Load(t)
                  THEN pendingRequests'[t] = <<>> /\ req'[t][s].st = "idle"
                  ELSE req'[t][s].st = "queued" /\ s \in Range(pendingRequests'[t])
         /\ SuccessInvokesQueued(t) ]_vars

\* C25 witness: request 1 was the refresher of a cycle that failed with
\* request 2 queued; a cycle started by a later request has succeeded and has
\* resubmitted request 2 with its token, which the tab holds
C25_Witness ==
    /\ req["A"][1].errOf = "refresh"
    /\ req["A"][2].st = "flight" /\ req["A"][2].ord = 1
    /\ req["A"][LateSlot].st = "flight" /\ req["A"][LateSlot].ord = 2
    /\ accessTokenMemory["A"] = req["A"][2].rtok

C27_LaterPagesFetchLive ==
    [][\A c \in CallIds :
         LET cl == call[c]
             after == call'[c]
         IN ( /\ cl.op = "list" /\ cl.key.pageToken # Null
              /\ after # cl ) =>
              /\ after.bg = "none"
              /\ cl.pc = "reading" =>
                    /\ after.pc = "fetching"
                    /\ after.cached \in {store[cl.key], Absent}
                    /\ store' = store
              /\ cl.pc = "fetching" =>
                    /\ store' = store
                    /\ \/ after.pc = "writing" /\ after.result = Entry(server)
                       \/ /\ cl.cached.present
                          /\ after.pc = "returned" /\ after.from = "cache"
                          /\ after.result = cl.cached
                       \/ ~cl.cached.present /\ after.pc = "threw"
              /\ cl.pc = "writing" =>
                    /\ after.pc = "returned" /\ after.from = "live"
                    /\ after.result = cl.result
                    /\ \/ store' = [store EXCEPT ![cl.key] = cl.result]
                       \/ store' = store ]_vars

\* C27 witness: a read of the second page, which was cached, has returned the
\* server's newer response, and that response is now the entry of the page
C27_Witness ==
    \E c \in CallIds :
        /\ call[c].key = EmailListKey("INBOX", "p2")
        /\ call[c].cached = Entry("old")
        /\ call[c].pc = "returned" /\ call[c].from = "live"
        /\ call[c].result = Entry("new")
        /\ store[call[c].key] = Entry("new")

\* C28: the handler of a push notification starts the invalidations whatever
\* the notification carries and reaches the refetch signal only through them.
\* Its steps empty the mailbox-list entry and every email-list entry, give no
\* entry a value and leave every email-detail entry as it is.
C28_PushInvalidatesListsAndMailboxes ==
    [][\A t \in Tabs :
         /\ \A n \in Notifications :
               handleGmailNotification(t, n) =>
                  push'[t].pc = "invalidating" /\ store' = store
         /\ push'[t].pc = "invalidating" /\ push[t].pc # "invalidating" =>
               ~push'[t].lists /\ ~push'[t].mailboxes
         /\ push'[t].pc = "signalled" /\ push[t].pc # "signalled" =>
               /\ push[t].pc = "invalidating"
               /\ push'[t].lists /\ push'[t].mailboxes
         /\ push[t].pc = "invalidating" /\ push'[t] # push[t] =>
               /\ \A k \in EmailKeys : store'[k] = store[k]
               /\ \A k \in Keys : store'[k] \in {store[k], Absent}
               /\ push'[t].lists /\ ~push[t].lists =>
                     \A k \in EmailListKeys : store'[k] = Absent
               /\ push'[t].mailboxes /\ ~push[t].mailboxes =>
                     store'[MailboxesKey] = Absent
               /\ push[t].lists => push'[t].lists
               /\ push[t].mailboxes => push'[t].mailboxes ]_vars

\* C28 witness: the handler has reached the refetch signal over a store that
\* held every entry: the mailbox list and the list pages are gone, the email
\* details are still there
C28_Witness ==
    /\ push["A"].pc = "signalled"
    /\ ~store[MailboxesKey].present
    /\ \A k \in EmailListKeys : ~store[k].present
    /\ \A k \in EmailKeys : store[k] = Entry("old")

\* C29: when a tab handles a 'storage' event for the key 'user', its user
\* becomes what localStorage['user'] holds at that moment, null when the key
\* is absent or its text does not parse, and its token is as before; an event
\* with another key or with no key changes neither its user nor its token.
C29_StorageEventSyncsUserOnly ==
    [][\A t \in Tabs : \A key \in EventKeys :
         handleStorage(t, key) =>
            /\ accessTokenMemory' = accessTokenMemory
            /\ lsUser' = lsUser
            /\ user'[t] = IF key # "user" THEN user[t]
                          ELSE IF lsUser = Null \/ lsUser = Unparsable THEN Null
                          ELSE lsUser
            /\ \A u \in Tabs \ {t} : user'[u] = user[u] ]_vars

\* C29 witness: tab B restored its session; the stored user was then replaced
\* by text that does not parse; B has handled the event: it has no user and
\* still holds its token
C29_Witness ==
    /\ accessTokenMemory["B"] # Null /\ bootstrapped["B"]
    /\ lsUser = Unparsable /\ ~lsEvent["B"]
    /\ user["B"] = Null

\* C30: a refresh that succeeds in a tab, at boot or in the interceptor, puts
\* no message on the channel, raises no storage event and leaves the token of
\* every other tab as it is; a tab's token becomes a new token only by its own
\* refresh, its own login, or a login message it takes from the channel, and
\* then it is the token of that message.
C30_RefreshStaysInItsTab ==
    [][\A t \in Tabs :
         /\ \A s \in Slots, tok \in Tokens :
               ( RefreshOk(t, s, tok) \/ (OkResponse(t, BootSlot, tok) /\ s = BootSlot) )
               => /\ inbox' = inbox /\ lsEvent' = lsEvent /\ lsUser' = lsUser
                  /\ accessTokenMemory'[t] = tok
                  /\ \A u \in Tabs \ {t} :
                        accessTokenMemory'[u] = accessTokenMemory[u]
         /\ ( /\ accessTokenMemory'[t] # accessTokenMemory[t]
              /\ accessTokenMemory'[t] # Null )
            => \/ \E s \in Slots : RefreshOk(t, s, accessTokenMemory'[t])
               \/ OkResponse(t, BootSlot, accessTokenMemory'[t])
               \/ \E r \in Reqs, u \in Users : PersistLogin(t, r, u)
               \/ /\ inbox[t] # <<>> /\ Head(inbox[t]).type = "login"
                  /\ accessTokenMemory'[t] = Head(inbox[t]).accessToken
                  /\ Recv(t) ]_vars

\* C30 witness: both tabs restored the session; tab A's interceptor has since
\* refreshed and resubmitted its request with the new token; tab B still
\* holds the token of its own boot and has nothing to receive
C30_Witness ==
    /\ req["A"][1].rtok \in Tokens /\ accessTokenMemory["A"] = req["A"][1].rtok
    /\ req["B"][1].hdr \in Tokens /\ accessTokenMemory["B"] = req["B"][1].hdr
    /\ accessTokenMemory["B"] # accessTokenMemory["A"]
    /\ inbox["B"] = <<>> /\ ~lsEvent["B"]

\* C31: the start-watch call is made at most once per browser session: no
\* step invokes startGmailWatch once an invocation has succeeded (the session
\* flag is set), and none invokes it while an earlier invocation is pending.
C31_StartWatchOncePerSession ==
    [][\A t \in Tabs :
         watch'[t].pending > watch[t].pending
         => ~watch[t].started /\ watch[t].pending = 0]_vars

\* C32: when a caller's request fails with anything but a 401 (another status,
\* or no response), its promise is rejected with that error; no refresh call
\* is started, nothing is queued, no other request is touched, and the access
\* token, the stored user and the in-flight flag are as before.
C32_OtherErrorsPassThrough ==
    [][\A t \in Tabs, s \in Reqs, status \in ErrorStatuses \ {401} :
         ErrorResponse(t, s, status)
         => /\ req'[t][s].st = "err"
            /\ req'[t][s].err = status /\ req'[t][s].errOf = "own"
            /\ \A q \in AllSlots \ {s} : req'[t][q] = req[t][q]
            /\ pendingRequests' = pendingRequests
            /\ isRefreshing' = isRefreshing
            /\ accessTokenMemory' = accessTokenMemory
            /\ lsUser' = lsUser /\ user' = user
            /\ inbox' = inbox /\ nav' = nav ]_vars

\* C32 witness: while a refresh cycle is pending in a tab that holds a token,
\* one request has failed with status 500 and reached its caller as that
\* error; nothing is queued
C32_Witness ==
    \E r \in Reqs, s \in Reqs :
        /\ req["A"][r].st = "err" /\ req["A"][r].err = 500
        /\ req["A"][r].errOf = "own" /\ ~req["A"][r].retry
        /\ req["A"][s].st = "refreshing" /\ isRefreshing["A"]
        /\ pendingRequests["A"] = <<>>
        /\ accessTokenMemory["A"] \in Tokens /\ lsUser = "u1"

\* C33: a tab never has more than one expiry watcher pending, and a pending
\* watcher was scheduled from the token the tab holds, which has an expiry.
\* After setAccessToken(tok) the only pending watcher is that of tok, and
\* there is none when tok is null or has no readable expiry; after
\* clearLocalAuth there is none; a watcher that fires changes neither the
\* token nor the user, stored or in the provider.
C33_OneWatcherOfCurrentToken ==
    /\ [](\A t \in Tabs :
            /\ Cardinality(timers[t]) <= 1
            /\ timers[t] \subseteq {accessTokenMemory[t]} \cap ExpTokens)
    /\ [][\A t \in Tabs :
            /\ \A tok \in Tokens \cup {Null} :
                 SetToken(t, tok)
                 => /\ accessTokenMemory'[t] = tok
                    /\ timers'[t] = IF decodeJwtExp(tok) = Null THEN {} ELSE {tok}
            /\ ClearLocal(t) => timers'[t] = {} /\ accessTokenMemory'[t] = Null
            /\ \A id \in Tokens :
                 TimerFires(t, id)
                 => /\ accessTokenMemory' = accessTokenMemory
                    /\ user' = user /\ lsUser' = lsUser ]_vars

\* C33 witness: a tab holds a token without a readable expiry and has no
\* watcher pending, after a watcher of an earlier token was scheduled (its id
\* is still in accessExpiryTimer); the other tab's watcher is pending
C33_Witness ==
    /\ accessTokenMemory["A"] = "tx" /\ timers["A"] = {}
    /\ accessExpiryTimer["A"] \in ExpTokens
    /\ accessTokenMemory["B"] \in ExpTokens /\ timers["B"] = {accessTokenMemory["B"]}

\* the list without this id, and the id that follows this id in the list
Without(l, id) == SelectSeq(l, LAMBDA x : x # id)
Following(l, id) == IdAt(l, findIndex(l, id) + 1)

\* C34: when the auto-select effect of useEmailSelection runs: with an empty
\* list the selection becomes null; with the selected email in the list the
\* selection stays; and when the list is the previous list without the
\* selected email (it was deleted) and is not empty, the email that followed
\* the selected one in the previous list becomes the selected email.
C34_NextEmailSelectedAfterDeletion ==
    [][(RunEffects /\ AutoSelectDue /\ ~ResetDue) =>
         /\ selection.emails = <<>> => selection'.selectedEmailId = Null
         /\ selection.selectedEmailId \in Range(selection.emails)
              => selection'.selectedEmailId = selection.selectedEmailId
         /\ ( /\ selection.emails # <<>>
              /\ selection.selectedEmailId \in Range(selection.depEmails)
              /\ selection.emails = Without(selection.depEmails,
                                            selection.selectedEmailId)
              /\ Following(selection.depEmails, selection.selectedEmailId) # Null )
            => selection'.selectedEmailId
                 = Following(selection.depEmails, selection.selectedEmailId) ]_vars

====
